---- MODULE Spec2Model ----
(***************************************************************************)
(* Model of `qlever update-wikidata` (src/src/qlever/commands/              *)
(* update_wikidata.py): the loop of UpdateWikidataCommand.execute that      *)
(* consumes the change stream in batches, checks the stream offset against  *)
(* the offset stored in the endpoint, nets the inserted and deleted triples *)
(* of a batch and sends one update per batch.                               *)
(*                                                                          *)
(* The stream is a sequence of messages of the configured topic, indexed by *)
(* their offset. A message becomes known when it is first delivered and is  *)
(* the same on every later delivery (after a reconnect at an earlier        *)
(* offset). The endpoint is the set of updateStreamNextOffset values it     *)
(* holds; the offset it reports is their maximum.                           *)
(***************************************************************************)
EXTENDS Integers, FiniteSets, Sequences, TLC

\* ------------------------------------------------------------------ bounds

\* Number of messages of the configured topic in the stream (offsets 1..StreamLen).
StreamLen == 3
\* The value of --batch-size used in the model.
BatchSize == 2
\* Dates (whole seconds) carried by the messages: 1..MaxDate.
MaxDate == 2
\* Loop iterations that assemble or load a batch (bounds batch_count).
MaxBatches == 2
\* Number of times the endpoint's stored offset is changed from outside
\* (a restart that loses updates, an update by somebody else).
MaxStoreChanges == 1

\* Python's None for an offset, a date and an optional number. The model keeps
\* every real offset, date and count >= 1.
None == 0

Offsets == 1..StreamLen
Dates == 1..MaxDate
Entities == {"A", "B"}
Triples == {"t1", "t2"}

\* An absent payload object (`event_data.get(...)` is None) and a payload
\* object whose "data" parses to the graph g.
NoPayload == <<>>
Payload(g) == <<g>>
GraphOf(p) == IF p = NoPayload THEN {} ELSE p[1]

Max(S) == CHOOSE x \in S : \A y \in S : y <= x
Min(S) == CHOOSE x \in S : \A y \in S : x <= y

\* ---------------------------------------------------------------- messages

\* A message of the configured topic. dt_ok: "ok", or "unparsable" (strptime
\* raises on meta.dt). rdf_ok: the Turtle of its payloads parses.
Msg(e, op, d, dk, add, del, link, unlink, ok) ==
    [entity_id |-> e, operation |-> op, dt |-> d, dt_ok |-> dk,
     rdf_added_data |-> add, rdf_deleted_data |-> del,
     rdf_linked_shared_data |-> link, rdf_unlinked_shared_data |-> unlink,
     rdf_ok |-> ok]

Undelivered == [operation |-> "undelivered"]

EventShapes ==
    { \* a diff that adds t1 to A
      Msg("A", "diff", 1, "ok", Payload({"t1"}), NoPayload, NoPayload, NoPayload, TRUE),
      \* a diff that adds t2 to B
      Msg("B", "diff", 2, "ok", Payload({"t2"}), NoPayload, NoPayload, NoPayload, TRUE),
      \* a diff on A that removes t1 (also as unlinked shared data) and links
      \* the shared t2
      Msg("A", "diff", 2, "ok", NoPayload, Payload({"t1"}), Payload({"t2"}), Payload({"t1"}), TRUE),
      \* the deletion of entity A
      Msg("A", "delete", 1, "ok", NoPayload, NoPayload, NoPayload, NoPayload, TRUE),
      \* malformed messages: unparsable date, unparsable Turtle
      Msg("A", "diff", None, "unparsable", Payload({"t1"}), NoPayload, NoPayload, NoPayload, TRUE),
      Msg("A", "diff", 1, "ok", Payload({"t1"}), NoPayload, NoPayload, NoPayload, FALSE) }

\* ------------------------------------------------------------ configuration

\* The command line: the defaults of additional_arguments, with the model's
\* batch size. offset, num_messages and until are None unless given.
\* The longest wait between batches, in seconds (the default is 300).
MaxWait == 3

DefaultArgs ==
    [batch_size |-> BatchSize, num_messages |-> None, until |-> None,
     offset |-> None, check_offset_before_each_batch |-> "yes",
     rewind_to_earlier_offset |-> "yes", use_cached_sparql_queries |-> FALSE,
     min_or_max_date |-> "max", wait_between_batches |-> MaxWait]

\* The command lines of the model: the default one and those that change one
\* option of it.
Configs ==
    { DefaultArgs,
      [DefaultArgs EXCEPT !.offset = 2],
      [DefaultArgs EXCEPT !.num_messages = 2],
      [DefaultArgs EXCEPT !.until = MaxDate],
      [DefaultArgs EXCEPT !.check_offset_before_each_batch = "no"],
      [DefaultArgs EXCEPT !.rewind_to_earlier_offset = "no"],
      [DefaultArgs EXCEPT !.use_cached_sparql_queries = TRUE],
      \* ... with a bound on the messages that is not a multiple of the
      \* batch size
      [DefaultArgs EXCEPT !.use_cached_sparql_queries = TRUE,
                          !.num_messages = 1],
      [DefaultArgs EXCEPT !.min_or_max_date = "min"],
      \* a batch size that the messages of the stream never reach
      [DefaultArgs EXCEPT !.batch_size = StreamLen + 1] }

\* The directory may hold the update file of an earlier run, which read the
\* first BatchSize messages of the stream (t1 for A, then t2 for B), and
\* whose batch of these was written to update.1.<BatchSize>.sparql.
EarlierRunStream ==
    [o \in Offsets |->
        IF o = 1
           THEN Msg("A", "diff", 1, "ok", Payload({"t1"}), NoPayload, NoPayload, NoPayload, TRUE)
        ELSE IF o <= BatchSize
           THEN Msg("B", "diff", 2, "ok", Payload({"t2"}), NoPayload, NoPayload, NoPayload, TRUE)
        ELSE Undelivered]

EarlierRunFiles ==
    << 1, BatchSize >> :>
       [delete |-> {}, insert |-> {"t1", "t2"}, date_modified |-> 2,
        updates_complete_until |-> 2, next_offset |-> 1 + BatchSize,
        delete_where |-> {}]

\* ... or of an earlier run in which the second message had a date that
\* could not be parsed and was skipped: its batch of BatchSize messages ended
\* one offset later, and lines 926-930 wrote the offset after that into the
\* file.
EarlierRunSkippedStream ==
    [o \in Offsets |->
        IF o = 1
           THEN Msg("A", "diff", 1, "ok", Payload({"t1"}), NoPayload, NoPayload, NoPayload, TRUE)
        ELSE IF o = 2
           THEN Msg("A", "diff", None, "unparsable", Payload({"t1"}), NoPayload, NoPayload, NoPayload, TRUE)
        ELSE IF o <= BatchSize + 1
           THEN Msg("B", "diff", 2, "ok", Payload({"t2"}), NoPayload, NoPayload, NoPayload, TRUE)
        ELSE Undelivered]

EarlierRunSkippedFiles ==
    << 1, BatchSize >> :>
       [delete |-> {}, insert |-> {"t1", "t2"}, date_modified |-> 2,
        updates_complete_until |-> 2, next_offset |-> 1 + BatchSize + 1,
        delete_where |-> {}]

\* The offsets the endpoint may hold when the command starts (none only with
\* the default command line).
InitStoreOffsets == { {}, {1} }

\* -------------------------------------------------------------------- state

VARIABLES
    \* environment
    stream,                  \* offset -> message (Undelivered until first delivered)
    store_offsets,           \* the endpoint's updateStreamNextOffset values
    store_index,             \* ... those of its index, without any update
    store_dates,             \* the endpoint's dateModified and updatesCompleteUntil
                             \* values on wikibase:Dump
    store_changes,           \* outside changes of the endpoint so far
    files,                   \* update.<first>.<size>.sparql files: <<first, size>> -> update
    \* the command
    args,
    pc,
    ret,                     \* "running", "True", "False", or "raised"
    ctrl_c_pressed,
    retry,                   \* the call of retry_with_backoff under way
    seconds_waited,          \* the seconds slept in the wait between batches
    other_events,            \* the events the inner loop has passed over,
                             \* each with the size of the batch it came to
    finished,
    batch_count,
    total_num_messages,
    wait_before_next_batch,
    event_id_for_next_batch, \* the offset of the event ID, or None
    first_batch,
    source_pos,              \* offset of the next message `source` delivers
    open_sources,            \* EventSource objects connected and not closed
    first_offset_in_batch,
    current_batch_size,
    date_list,
    delete_entity_ids,
    insert_triples,
    delete_triples,
    use_cached_file,
    update,                  \* the update operation of the batch being sent
    \* history (not read by the command)
    start_from,              \* where args.offset came from: "arg", "endpoint", "date",
                             \* "date_query_failed" (the date, after the query for the
                             \* offset of the endpoint failed)
    guard,                   \* the last offset check: what it read and decided,
                             \* and what the check before it decided
    close_by,                \* what ended the inner loop, on which offset, and the
                             \* event ID it left for the next batch
    last_apply,              \* how the last update request ended
    triple_ops,              \* triple -> the operations applied to it, in order
    within_lag               \* whether the message the inner loop handled last was
                             \* within --lag-seconds of now: "yes", "no", or "none"
                             \* (not computed)

vars == << stream, store_offsets, store_index, store_dates, store_changes, files,
           args, pc, ret,
           ctrl_c_pressed, retry, other_events, seconds_waited, finished, batch_count, total_num_messages,
           wait_before_next_batch, event_id_for_next_batch, first_batch,
           source_pos, open_sources, first_offset_in_batch, current_batch_size,
           date_list, delete_entity_ids, insert_triples, delete_triples,
           use_cached_file, update, start_from, guard, close_by, last_apply,
           triple_ops, within_lag >>

envVars == << stream, store_offsets, store_index, store_dates, store_changes,
             files >>
\* the variables of one batch
batchVars == << first_offset_in_batch, current_batch_size, date_list,
                delete_entity_ids, insert_triples, delete_triples,
                use_cached_file >>
\* the variables of the main loop
loopVars == << batch_count, total_num_messages, wait_before_next_batch,
               event_id_for_next_batch, first_batch, source_pos, update >>
histVars == << start_from, guard, close_by, last_apply, triple_ops,
              within_lag >>

NoUpdate ==
    [delete |-> {}, insert |-> {}, date_modified |-> None,
     updates_complete_until |-> None, next_offset |-> None,
     delete_where |-> {}]

\* No call of retry_with_backoff is modelled step by step.
NoRetry ==
    [operation_name |-> "none", max_retries |-> None, attempt |-> None,
     slept |-> << >>, result |-> "none"]

NoGuard == [result |-> "none", endpoint_offset |-> None, expected |-> None,
            prev |-> "none"]
NoClose == [reason |-> "none", offset |-> None, next |-> None]

\* The dates on wikibase:Dump of an index that holds the offsets `offsets`: the
\* dateModified of the dump and, if updates went into it, their
\* updatesCompleteUntil.
IndexDates(offsets) ==
    [date_modified |-> {1},
     updates_complete_until |-> IF offsets = {} THEN {} ELSE {1}]

\* The dates on wikibase:Dump once the update of a first batch with the one
\* date 1 went into an index with an update.
DatesAfterFirst ==
    [date_modified |-> {1}, updates_complete_until |-> {1}]

\* Lines 114-122, sparql_updates_complete_until_query: the first of the rows
\* MIN(?date_modified) and every updatesCompleteUntil, in descending order.
UpdatesCompleteUntil ==
    LET rows == (IF store_dates.date_modified = {}
                    THEN {}
                    ELSE {Min(store_dates.date_modified)})
                \cup store_dates.updates_complete_until
    IN  IF rows = {} THEN None ELSE Max(rows)

\* The offset the endpoint reports: MAX(?offset), no row when it holds none.
EndpointOffset == IF store_offsets = {} THEN None ELSE Max(store_offsets)

Init ==
    /\ args \in Configs
    /\ store_offsets \in InitStoreOffsets
    /\ store_index = store_offsets
    /\ store_dates = IndexDates(store_index)
    /\ args = DefaultArgs \/ store_offsets # {}
    /\ store_changes = 0
    /\ files \in IF args.use_cached_sparql_queries
                    THEN {<< >>, EarlierRunFiles, EarlierRunSkippedFiles}
                    ELSE {<< >>}
    /\ stream = IF DOMAIN files = {}
                    THEN [o \in Offsets |-> Undelivered]
                    ELSE IF files = EarlierRunFiles
                    THEN EarlierRunStream
                    ELSE EarlierRunSkippedStream
    /\ pc = "start"
    /\ ret = "running"
    /\ ctrl_c_pressed = FALSE
    /\ retry = NoRetry
    /\ other_events = << >>
    /\ seconds_waited = 0
    /\ finished = FALSE
    /\ batch_count = 0
    /\ total_num_messages = 0
    /\ wait_before_next_batch = FALSE
    /\ event_id_for_next_batch = None
    /\ first_batch = TRUE
    /\ source_pos = None
    /\ open_sources = 0
    /\ first_offset_in_batch = None
    /\ current_batch_size = 0
    /\ date_list = {}
    /\ delete_entity_ids = {}
    /\ insert_triples = {}
    /\ delete_triples = {}
    /\ use_cached_file = FALSE
    /\ update = NoUpdate
    /\ start_from = "none"
    /\ guard = NoGuard
    /\ close_by = NoClose
    /\ last_apply = "none"
    /\ triple_ops = [t \in Triples |-> << >>]
    /\ within_lag = "none"

\* ------------------------------------------------------------ the endpoint

\* The endpoint is changed from outside while the command is between two
\* batches: it restarts from its index and the updates since are lost
\* (restart = TRUE), or somebody else has advanced its offset by one.
StoreChange ==
    /\ pc = "loop_top"
    /\ batch_count >= 1
    /\ store_changes < MaxStoreChanges
    /\ store_changes' = store_changes + 1
    /\ \E restart \in BOOLEAN :
          /\ store_offsets' = IF restart THEN store_index
                                         ELSE store_offsets \cup {EndpointOffset + 1}
          /\ store_offsets' # store_offsets
          /\ store_dates' = IF restart THEN IndexDates(store_index)
                                       ELSE store_dates
    /\ UNCHANGED << stream, store_index, files, args, pc, ret, ctrl_c_pressed, retry, other_events, seconds_waited,
                    finished, batch_count, total_num_messages,
                    wait_before_next_batch, event_id_for_next_batch,
                    first_batch, source_pos, open_sources, batchVars, update,
                    histVars >>

\* SIGINT arrives (handle_ctrl_c); a second one only logs. The flag is read at
\* the top of the main loop, after a message was consumed and at the end of an
\* iteration: a signal that arrives elsewhere is seen as one that arrives at
\* the next of these points.
CtrlC ==
    /\ pc \in {"loop_top", "assemble", "stats"}
    /\ ~ctrl_c_pressed
    /\ ctrl_c_pressed' = TRUE
    /\ UNCHANGED << envVars, args, pc, ret, retry, other_events, seconds_waited, finished, batch_count,
                    total_num_messages, wait_before_next_batch,
                    event_id_for_next_batch, first_batch, source_pos,
                    open_sources, batchVars, update, histVars >>

\* -------------------------------------------------------------- the command

\* execute goes on at `next`.
Goto(next) ==
    /\ pc' = next
    /\ UNCHANGED ret

\* execute returns `value`, or an exception leaves it ("raised"): its local
\* variables are gone.
Return(value) ==
    /\ pc' = "done"
    /\ ret' = value
    /\ batch_count' = 0
    /\ total_num_messages' = 0
    /\ wait_before_next_batch' = FALSE
    /\ event_id_for_next_batch' = None
    /\ first_batch' = TRUE
    /\ source_pos' = None
    /\ first_offset_in_batch' = None
    /\ current_batch_size' = 0
    /\ date_list' = {}
    /\ delete_entity_ids' = {}
    /\ insert_triples' = {}
    /\ delete_triples' = {}
    /\ use_cached_file' = FALSE
    /\ update' = NoUpdate

\* StoredOffset if the answer of the endpoint were never used.
StoredOffsetIgnored(answered) == None

\* Lines 319-347: the offset that the query for updateStreamNextOffset gives:
\* that of the endpoint if the query is answered and there is one, none if
\* the query fails ("Could not retrieve offset from endpoint ... Will
\* determine offset from date instead").
StoredOffset(answered) ==
    IF answered THEN EndpointOffset ELSE None

\* Lines 295-401: determine the offset to start from.
Startup ==
    /\ pc = "start"
    /\ \/ \* --since is not given and the query for the date fails
          /\ Return("False")
          /\ UNCHANGED << args, start_from >>
       \/ \* --offset given
          /\ args.offset # None
          /\ event_id_for_next_batch' = args.offset
          /\ start_from' = "arg"
          /\ Goto("loop_top")
          /\ UNCHANGED << args, batch_count, total_num_messages,
                          wait_before_next_batch, first_batch, source_pos,
                          update, batchVars >>
       \/ \* the offset stored in the endpoint
          /\ args.offset = None
          /\ \E answered \in BOOLEAN :
                /\ StoredOffset(answered) # None
                /\ args' = [args EXCEPT !.offset = StoredOffset(answered)]
                /\ event_id_for_next_batch' = StoredOffset(answered)
          /\ start_from' = "endpoint"
          /\ Goto("loop_top")
          /\ UNCHANGED << batch_count, total_num_messages,
                          wait_before_next_batch, first_batch, source_pos,
                          update, batchVars >>
       \/ \* no offset from the endpoint (none stored, or the query failed):
          \* the offset of the first message of the topic since the date
          /\ args.offset = None
          /\ \E answered \in BOOLEAN :
                /\ StoredOffset(answered) = None
                /\ start_from' = IF answered THEN "date"
                                             ELSE "date_query_failed"
          /\ \E o \in Offsets :
                /\ args' = [args EXCEPT !.offset = o]
                /\ event_id_for_next_batch' = o
          /\ Goto("loop_top")
          /\ UNCHANGED << batch_count, total_num_messages,
                          wait_before_next_batch, first_batch, source_pos,
                          update, batchVars >>
       \/ \* ... and the stream cannot be read
          /\ args.offset = None
          /\ Return("False")
          /\ UNCHANGED << args, start_from >>
    /\ UNCHANGED << envVars, ctrl_c_pressed, retry, other_events, seconds_waited, finished, open_sources, guard,
                    close_by, last_apply, triple_ops, within_lag >>

\* Lines 406-426: the top of the main loop, with the wait between batches.
LoopTop ==
    /\ pc = "loop_top"
    /\ IF ctrl_c_pressed
          THEN Return("True")
          ELSE /\ Goto("connect")
               /\ wait_before_next_batch' = FALSE
               /\ UNCHANGED << batch_count, total_num_messages,
                               event_id_for_next_batch, first_batch,
                               source_pos, update, batchVars >>
    /\ UNCHANGED << envVars, args, ctrl_c_pressed, retry, other_events, seconds_waited, finished, open_sources,
                    histVars >>

\* Lines 428-465: connect to the stream at the event ID; `sources` is the
\* number of connections that are open afterwards.
ConnectCounting(sources) ==
    /\ pc = "connect"
    /\ \/ /\ source_pos' = event_id_for_next_batch
          /\ open_sources' = sources
          /\ Goto("guard")
          /\ UNCHANGED << batch_count, total_num_messages,
                          wait_before_next_batch, event_id_for_next_batch,
                          first_batch, update, batchVars >>
       \/ \* all attempts failed: `break`
          /\ Return("True")
          /\ UNCHANGED open_sources
    /\ UNCHANGED << envVars, args, ctrl_c_pressed, retry, other_events, seconds_waited, finished, histVars >>

\* Lines 428-465: the connection is one more that is open.
Connect ==
    ConnectCounting(open_sources + 1)

\* CheckOffset if the first batch were checked as well.
CheckOffsetAlways(first) ==
    /\ args.check_offset_before_each_batch = "yes"
    /\ first # None

\* CheckOffset if --rewind-to-earlier-offset yes kept the query alive when
\* --check-offset-before-each-batch is no.
CheckOffsetForRewind(first) ==
    /\ \/ args.check_offset_before_each_batch = "yes"
       \/ args.rewind_to_earlier_offset = "yes"
    /\ ~first_batch
    /\ first # None

\* Lines 486-492: whether the offset is checked before this batch.
CheckOffset(first) ==
    /\ args.check_offset_before_each_batch = "yes"
    /\ ~first_batch
    /\ first # None

\* Lines 474-485 and 571-607: the empty batch that starts at `first`, and
\* whether a cached update file is used for it.
BeginBatch(first) ==
    /\ batch_count < MaxBatches
    /\ first_offset_in_batch' = first
    /\ event_id_for_next_batch' = None
    /\ current_batch_size' = 0
    /\ date_list' = {}
    /\ delete_entity_ids' = {}
    /\ insert_triples' = {}
    /\ delete_triples' = {}
    /\ use_cached_file' = ( /\ args.use_cached_sparql_queries
                            /\ first # None
                            /\ << first, args.batch_size >> \in DOMAIN files )
    /\ Goto("assemble")
    /\ UNCHANGED << batch_count, total_num_messages, wait_before_next_batch,
                    first_batch, source_pos, update >>

\* Rewind as it would be if the event ID kept the offset of the stream.
RewindKeepsOffset(first, endpoint_offset) ==
    /\ first_offset_in_batch' = first
    /\ current_batch_size' = 0
    /\ event_id_for_next_batch' = first
    /\ Goto("loop_top")
    /\ UNCHANGED << batch_count, total_num_messages, wait_before_next_batch,
                    first_batch, source_pos, update, date_list,
                    delete_entity_ids, insert_triples, delete_triples,
                    use_cached_file >>

\* Rewind as it would be if the test of --rewind-to-earlier-offset were
\* inverted: the command stops.
RewindHalts(first, endpoint_offset) ==
    Return("False")

\* Lines 538-546: reconnect from the offset of the endpoint (`continue`).
Rewind(first, endpoint_offset) ==
    /\ first_offset_in_batch' = first
    /\ current_batch_size' = 0
    /\ event_id_for_next_batch' = endpoint_offset
    /\ Goto("loop_top")
    /\ UNCHANGED << batch_count, total_num_messages, wait_before_next_batch,
                    first_batch, source_pos, update, date_list,
                    delete_entity_ids, insert_triples, delete_triples,
                    use_cached_file >>

\* Lines 474-569 (then 571-607): start a batch at the event ID and check it
\* against the offset of the endpoint.
OffsetGuard ==
    /\ pc = "guard"
    /\ LET first == event_id_for_next_batch
           endpoint_offset == EndpointOffset
           decided(r) == [result |-> r, endpoint_offset |-> endpoint_offset,
                          expected |-> first, prev |-> guard.result]
       IN  IF ~CheckOffset(first)
           THEN /\ guard' = [result |-> "skipped", endpoint_offset |-> None,
                             expected |-> first, prev |-> guard.result]
                /\ BeginBatch(first)
           ELSE \/ \* the query failed on every attempt
                   /\ guard' = [result |-> "failed", endpoint_offset |-> None,
                                expected |-> first, prev |-> guard.result]
                   /\ Return("False")
                \/ \* the query returned no offset
                   /\ endpoint_offset = None
                   /\ guard' = decided("empty")
                   /\ Return("False")
                \/ \* the stream offset is later: rewind
                   /\ endpoint_offset # None
                   /\ endpoint_offset < first
                   /\ args.rewind_to_earlier_offset = "yes"
                   /\ guard' = decided("rewind")
                   /\ Rewind(first, endpoint_offset)
                \/ \* ... with the rewind disabled
                   /\ endpoint_offset # None
                   /\ endpoint_offset < first
                   /\ args.rewind_to_earlier_offset # "yes"
                   /\ guard' = decided("later")
                   /\ Return("False")
                \/ \* the stream offset is earlier
                   /\ endpoint_offset > first
                   /\ guard' = decided("earlier")
                   /\ Return("False")
                \/ \* the offsets match
                   /\ endpoint_offset = first
                   /\ guard' = decided("match")
                   /\ BeginBatch(first)
    /\ UNCHANGED << envVars, args, ctrl_c_pressed, retry, other_events, seconds_waited, finished, open_sources,
                    start_from, close_by, last_apply, triple_ops,
                    within_lag >>

\* ------------------------------------------------- net inserts and deletes

\* DeleteTriple without lines 779-780: the triple stays in insert_triples.
DeleteTripleKeepInsert(sets, triple) ==
    [insert_triples |-> sets.insert_triples,
     delete_triples |-> sets.delete_triples \cup {triple}]

\* DeleteTriple with an `else` before line 781: a delete after an insert
\* cancels it.
DeleteTripleCancel(sets, triple) ==
    IF triple \in sets.insert_triples
       THEN [insert_triples |-> sets.insert_triples \ {triple},
             delete_triples |-> sets.delete_triples]
       ELSE [insert_triples |-> sets.insert_triples,
             delete_triples |-> sets.delete_triples \cup {triple}]

\* Lines 779-781: one triple of a to-be-deleted graph.
DeleteTriple(sets, triple) ==
    [insert_triples |-> sets.insert_triples \ {triple},
     delete_triples |-> sets.delete_triples \cup {triple}]

\* InsertTriple with an `else` before line 814: an insert after a delete
\* cancels it.
InsertTripleCancel(sets, triple) ==
    IF triple \in sets.delete_triples
       THEN [insert_triples |-> sets.insert_triples,
             delete_triples |-> sets.delete_triples \ {triple}]
       ELSE [insert_triples |-> sets.insert_triples \cup {triple},
             delete_triples |-> sets.delete_triples]

\* InsertTriple without lines 812-813: the triple stays in delete_triples.
InsertTripleKeepDelete(sets, triple) ==
    [insert_triples |-> sets.insert_triples \cup {triple},
     delete_triples |-> sets.delete_triples]

\* Lines 812-814: one triple of a to-be-added graph.
InsertTriple(sets, triple) ==
    [insert_triples |-> sets.insert_triples \cup {triple},
     delete_triples |-> sets.delete_triples \ {triple}]

\* Lines 773-781: `for s, p, o in graph` over a to-be-deleted graph.
RECURSIVE ProcessDeleted(_, _)
ProcessDeleted(sets, graph) ==
    IF graph = {} THEN sets
    ELSE LET triple == CHOOSE t \in graph : TRUE
         IN  ProcessDeleted(DeleteTriple(sets, triple), graph \ {triple})

\* Lines 806-814: `for s, p, o in graph` over a to-be-added graph.
RECURSIVE ProcessAdded(_, _)
ProcessAdded(sets, graph) ==
    IF graph = {} THEN sets
    ELSE LET triple == CHOOSE t \in graph : TRUE
         IN  ProcessAdded(InsertTriple(sets, triple), graph \ {triple})

\* Lines 755-819: the payloads of one message, the to-be-deleted ones first.
ProcessPayloads(sets, event) ==
    LET d1 == ProcessDeleted(sets, GraphOf(event.rdf_deleted_data))
        d2 == ProcessDeleted(d1, GraphOf(event.rdf_unlinked_shared_data))
        a1 == ProcessAdded(d2, GraphOf(event.rdf_added_data))
    IN  ProcessAdded(a1, GraphOf(event.rdf_linked_shared_data))

\* --------------------------------------------------------- the inner loop

\* Lines 667-670.
OperationAddsData(event) ==
    \/ event.rdf_added_data # NoPayload
    \/ event.rdf_linked_shared_data # NoPayload

\* Condition 1 if it came after condition 2.
ConflictConditionSecond(event) ==
    /\ OperationAddsData(event)
    /\ event.entity_id \in delete_entity_ids
    /\ ~ \/ current_batch_size >= args.batch_size
         \/ /\ args.num_messages # None
            /\ total_num_messages >= args.num_messages

\* Condition 1 (lines 671-682).
ConflictCondition(event) ==
    /\ OperationAddsData(event)
    /\ event.entity_id \in delete_entity_ids

\* Condition 2 with `>` for `>=`: one message more than --batch-size.
SizeConditionLate ==
    \/ current_batch_size > args.batch_size
    \/ /\ args.num_messages # None
       /\ total_num_messages >= args.num_messages

\* Condition 2 (lines 686-690).
SizeCondition ==
    \/ current_batch_size >= args.batch_size
    \/ /\ args.num_messages # None
       /\ total_num_messages >= args.num_messages

\* Condition 3 without `current_batch_size > 0`.
FreshConditionAlways(fresh) == fresh

\* Condition 3 (lines 700-703); fresh: the date is within --lag-seconds of now.
FreshCondition(fresh) ==
    /\ fresh
    /\ current_batch_size > 0

\* Condition 4 (lines 719-723).
UntilCondition(event) ==
    /\ args.until # None
    /\ event.dt >= args.until
    /\ current_batch_size > 0

\* CloseBatch as it would be if the event ID were set before the conditions
\* are checked: the message that ends the batch is passed over.
CloseBatchAfterEvent(reason, offset) ==
    /\ Goto("build")
    /\ event_id_for_next_batch' = offset + 1
    /\ close_by' = [reason |-> reason, offset |-> offset, next |-> offset + 1]
    /\ UNCHANGED << batch_count, total_num_messages, first_batch, source_pos,
                    update, batchVars >>

\* CloseBatch if the message that ends the batch were counted as one of it.
CloseBatchCounted(reason, offset) ==
    /\ Goto("build")
    /\ close_by' = [reason |-> reason, offset |-> offset,
                     next |-> event_id_for_next_batch]
    /\ current_batch_size' = current_batch_size + 1
    /\ total_num_messages' = total_num_messages + 1
    /\ UNCHANGED << batch_count, event_id_for_next_batch, first_batch,
                    source_pos, update, first_offset_in_batch, date_list,
                    delete_entity_ids, insert_triples, delete_triples,
                    use_cached_file >>

\* `break` out of the inner loop on the message at `offset`, which is not
\* consumed.
CloseBatch(reason, offset) ==
    /\ Goto("build")
    /\ close_by' = [reason |-> reason, offset |-> offset,
                     next |-> event_id_for_next_batch]
    /\ UNCHANGED << batch_count, total_num_messages, event_id_for_next_batch,
                    first_batch, source_pos, update, batchVars >>

\* SkipEvent if the message were counted as one of the batch.
SkipEventCounted ==
    /\ source_pos' = source_pos + 1
    /\ current_batch_size' = current_batch_size + 1
    /\ total_num_messages' = total_num_messages + 1
    /\ UNCHANGED << pc, ret, close_by, finished, batch_count,
                    wait_before_next_batch, event_id_for_next_batch,
                    first_batch, update, first_offset_in_batch, date_list,
                    delete_entity_ids, insert_triples, delete_triples,
                    use_cached_file >>

\* Lines 821-824: "Error reading data from message", `continue`.
SkipEvent ==
    /\ source_pos' = source_pos + 1
    /\ UNCHANGED << pc, ret, close_by, finished, batch_count,
                    total_num_messages, wait_before_next_batch,
                    event_id_for_next_batch, first_batch, update, batchVars >>

\* NextEventId without the increment: the next batch starts with the message
\* just processed.
NextEventIdSame(offset) == offset

\* Lines 849-858: the offset of the event ID for the next batch.
NextEventId(offset) == offset + 1

\* FinishOnCtrlC without the check: the inner loop goes on after Ctrl+C.
FinishOnCtrlCNever == FALSE

\* Lines 859-866: "Ctrl+C finishes the current batch", checked at the end of
\* the inner loop's body.
FinishOnCtrlC == ctrl_c_pressed

\* PostponeDelete without the `add`: the deletion of an entity is forgotten.
PostponeDeleteNever(event) == delete_entity_ids

\* Lines 731-734: "Delete operations are postponed until the end of the
\* batch, so remember the entity ID here". The triples of the batch stay as
\* they are.
PostponeDelete(event) ==
    IF event.operation = "delete"
       THEN delete_entity_ids \cup {event.entity_id}
       ELSE delete_entity_ids

\* Lines 731-866: the message at `offset` becomes part of the batch; `total`
\* is the number of messages processed with it.
ConsumeEvent(event, offset, total) ==
    LET sets == ProcessPayloads([insert_triples |-> insert_triples,
                                 delete_triples |-> delete_triples], event)
    IN  IF ~event.rdf_ok
        THEN \* "Error reading ...": return False
             /\ Return("False")
             /\ UNCHANGED << close_by, finished >>
        ELSE /\ delete_entity_ids' = PostponeDelete(event)
             /\ insert_triples' = sets.insert_triples
             /\ delete_triples' = sets.delete_triples
             /\ current_batch_size' = current_batch_size + 1
             /\ total_num_messages' = total
             /\ date_list' = date_list \cup {event.dt}
             /\ event_id_for_next_batch' = NextEventId(offset)
             /\ source_pos' = source_pos + 1
             /\ IF FinishOnCtrlC
                   THEN /\ Goto("build")
                        /\ close_by' = [reason |-> "ctrl_c", offset |-> offset,
                                         next |-> NextEventId(offset)]
                   ELSE UNCHANGED << pc, ret, close_by >>
             /\ UNCHANGED << finished, batch_count, wait_before_next_batch,
                             first_batch, update, first_offset_in_batch,
                             use_cached_file >>

\* Lines 618-866: one iteration of `for event in source`; `total` is the
\* number of messages processed once the message is one of the batch.
ProcessEventCounting(total) ==
    /\ pc = "assemble"
    /\ ~use_cached_file
    /\ source_pos \in Offsets
    /\ \E event \in EventShapes, fresh \in BOOLEAN :
          /\ stream[source_pos] \in {Undelivered, event}
          /\ stream' = [stream EXCEPT ![source_pos] = event]
          /\ LET offset == source_pos
             IN  IF ConflictCondition(event)
                    THEN /\ CloseBatch("conflict", offset)
                         /\ UNCHANGED << finished, wait_before_next_batch >>
                 ELSE IF SizeCondition
                    THEN /\ CloseBatch("size", offset)
                         /\ UNCHANGED << finished, wait_before_next_batch >>
                 ELSE IF event.dt_ok = "unparsable"
                    THEN SkipEvent
                 ELSE IF FreshCondition(fresh)
                    THEN /\ CloseBatch("fresh", offset)
                         /\ wait_before_next_batch' = TRUE
                         /\ UNCHANGED finished
                 ELSE IF UntilCondition(event)
                    THEN /\ CloseBatch("until", offset)
                         /\ finished' = TRUE
                         /\ UNCHANGED wait_before_next_batch
                 ELSE ConsumeEvent(event, offset, total)
          /\ within_lag' = IF \/ ConflictCondition(event)
                               \/ SizeCondition
                               \/ event.dt_ok = "unparsable"
                               THEN "none"
                               ELSE IF fresh THEN "yes" ELSE "no"
    /\ UNCHANGED << store_offsets, store_index, store_dates, store_changes,
                    files, args, ctrl_c_pressed, retry, other_events, seconds_waited, open_sources, start_from, guard,
                    last_apply, triple_ops >>

\* Line 828: `total_num_messages += 1` with the message.
ProcessEvent ==
    ProcessEventCounting(total_num_messages + 1)

\* Lines 867-877: the batch is the cached update file.
UseCachedFile ==
    /\ pc = "assemble"
    /\ use_cached_file
    /\ current_batch_size' = args.batch_size
    /\ total_num_messages' = total_num_messages + args.batch_size
    /\ event_id_for_next_batch' = first_offset_in_batch + args.batch_size
    /\ Goto("build")
    /\ close_by' = [reason |-> "cached", offset |-> None,
                     next |-> first_offset_in_batch + args.batch_size]
    /\ UNCHANGED << envVars, args, ctrl_c_pressed, retry, other_events, seconds_waited, finished, open_sources,
                    batch_count, wait_before_next_batch, first_batch,
                    source_pos, update, first_offset_in_batch, date_list,
                    delete_entity_ids, insert_triples, delete_triples,
                    use_cached_file, start_from, guard, last_apply,
                    triple_ops, within_lag >>

\* ------------------------------------------------------------- the update

\* UpdateOperation without lines 917-918: updatesCompleteUntil is the latest
\* date whatever --min-or-max-date says.
UpdateOperationMaxDate ==
    [delete |-> delete_triples,
     insert |-> insert_triples,
     date_modified |-> Max(date_list),
     updates_complete_until |-> Max(date_list),
     next_offset |-> event_id_for_next_batch,
     delete_where |-> delete_entity_ids]

\* UpdateOperation with date_list[0] for date_list[-1] in line 913:
\* dateModified is the earliest date of the batch.
UpdateOperationEarliestModified ==
    [delete |-> delete_triples,
     insert |-> insert_triples,
     date_modified |-> Min(date_list),
     updates_complete_until |->
         IF args.min_or_max_date = "max" THEN Max(date_list) ELSE Min(date_list),
     next_offset |-> event_id_for_next_batch,
     delete_where |-> delete_entity_ids]

\* Lines 902-966: the update operation of the batch. The three triples on
\* wikibase:Dump that the code adds to insert_triples are the fields
\* date_modified, updates_complete_until and next_offset.
UpdateOperation ==
    [delete |-> delete_triples,
     insert |-> insert_triples,
     date_modified |-> Max(date_list),
     updates_complete_until |->
         IF args.min_or_max_date = "max" THEN Max(date_list) ELSE Min(date_list),
     next_offset |-> event_id_for_next_batch,
     delete_where |-> delete_entity_ids]

\* DeleteInsertOperation with the DELETE WHERE operation put first.
DeleteWhereFirst(u) ==
    (IF u.delete_where # {}
        THEN << [operation |-> "DELETE WHERE", values |-> u.delete_where] >>
        ELSE << >>)
    \o << [operation |-> "DELETE INSERT",
           delete |-> u.delete,
           insert |-> u.insert,
           dump |-> {<< "dateModified", u.date_modified >>,
                     << "updatesCompleteUntil", u.updates_complete_until >>,
                     << "updateStreamNextOffset", u.next_offset >>}] >>

\* Lines 910-964, delete_insert_operation: the text sent in one request, as
\* the sequence of its operations (joined by ";"). The first is
\* DELETE { delete_block } INSERT { insert_block } WHERE { }, where the
\* insert block holds the triples of the batch and those on wikibase:Dump;
\* a DELETE WHERE over the VALUES of delete_entity_ids is appended when
\* there are any.
DeleteInsertOperation(u) ==
    << [operation |-> "DELETE INSERT",
        delete |-> u.delete,
        insert |-> u.insert,
        dump |-> {<< "dateModified", u.date_modified >>,
                  << "updatesCompleteUntil", u.updates_complete_until >>,
                  << "updateStreamNextOffset", u.next_offset >>}] >>
    \o (IF u.delete_where # {}
           THEN << [operation |-> "DELETE WHERE", values |-> u.delete_where] >>
           ELSE << >>)

\* Lines 879-989: build the update of the closed batch and write it to
\* update.<first>.<size>.sparql, or take the cached file. The files are kept
\* only when the command reads them (--use-cached-sparql-queries). `count`
\* is the number of batches built with this one.
BuildUpdateCounting(count) ==
    /\ pc = "build"
    /\ IF use_cached_file
          THEN /\ update' = files[<< first_offset_in_batch, args.batch_size >>]
               /\ batch_count' = count
               /\ Goto("apply")
               /\ UNCHANGED << files, total_num_messages,
                               wait_before_next_batch,
                               event_id_for_next_batch, first_batch,
                               source_pos, batchVars >>
          ELSE IF date_list = {}
          THEN \* delta_to_now_list[0] raises IndexError
               /\ Return("raised")
               /\ UNCHANGED files
          ELSE /\ update' = UpdateOperation
               /\ batch_count' = count
               /\ files' = IF args.use_cached_sparql_queries
                              THEN (<< first_offset_in_batch, current_batch_size >>
                                       :> UpdateOperation) @@ files
                              ELSE files
               /\ Goto("apply")
               /\ UNCHANGED << total_num_messages, wait_before_next_batch,
                               event_id_for_next_batch, first_batch,
                               source_pos, batchVars >>
    /\ UNCHANGED << stream, store_offsets, store_index, store_dates,
                    store_changes, args,
                    ctrl_c_pressed, retry, other_events, seconds_waited, finished, open_sources, histVars >>

\* Line 880: `batch_count += 1`.
BuildUpdate ==
    BuildUpdateCounting(batch_count + 1)

\* The dates on wikibase:Dump once the endpoint has executed the update u:
\* the two triples of lines 910-926 are inserted and nothing is deleted.
DatesAfter(u) ==
    [date_modified |-> store_dates.date_modified \cup {u.date_modified},
     updates_complete_until |->
         store_dates.updates_complete_until \cup {u.updates_complete_until}]

\* AfterUpdate if an update that the endpoint answers with an "exception"
\* were built and sent again without a new iteration of the main loop.
AfterUpdateResend(result) ==
    IF result = "ok" THEN "stats"
    ELSE IF result = "exception" THEN "build"
    ELSE "done"

\* AfterUpdate if a result that is not JSON were passed on.
AfterUpdateUnparsed(result) ==
    IF result = "exception" THEN "loop_top"
    ELSE IF result \in {"ok", "not_json"} THEN "stats"
    ELSE "done"

\* Lines 1001-1028: where execute goes on with the result of the UPDATE
\* request: the statistics of an executed update, `continue` after an
\* "exception", `return False` when f.write(None) or json.loads raises.
AfterUpdate(result) ==
    IF result = "ok" THEN "stats"
    ELSE IF result = "exception" THEN "loop_top"
    ELSE "done"

\* Lines 993-1028: send the update.
ApplyUpdate ==
    /\ pc = "apply"
    /\ \/ \* every attempt failed
          /\ last_apply' = "failed"
          /\ Return("False")
          /\ UNCHANGED << store_offsets, store_dates >>
       \/ \* the response is not JSON
          /\ last_apply' = "unparsable"
          /\ Return("False")
          /\ UNCHANGED << store_offsets, store_dates >>
       \/ \* the response has an "exception": `continue`
          /\ last_apply' = "exception"
          /\ Goto(AfterUpdate("exception"))
          /\ UNCHANGED << store_offsets, store_dates, loopVars, batchVars >>
       \/ \* the endpoint executed the update
          /\ last_apply' = "applied"
          /\ store_offsets' = store_offsets \cup {update.next_offset}
          /\ store_dates' = DatesAfter(update)
          /\ Goto("stats")
          /\ UNCHANGED << loopVars, batchVars >>
    /\ UNCHANGED << stream, store_index, store_changes, files, args,
                    ctrl_c_pressed, retry, other_events, seconds_waited, finished, open_sources, start_from, guard,
                    close_by, triple_ops, within_lag >>

\* Lines 1030-1234: the statistics of the response, then the end of the
\* iteration.
FinishBatch ==
    /\ pc = "stats"
    /\ \/ \* no `operations` or `time` in the response (RuntimeError), or a
          \* total time of 0 (ZeroDivisionError in the verbose log)
          /\ Return("raised")
          /\ UNCHANGED open_sources
       \/ /\ open_sources' = open_sources - 1
          /\ IF \/ ctrl_c_pressed
                \/ finished
                \/ /\ args.num_messages # None
                   /\ total_num_messages >= args.num_messages
                THEN Return("True")
                ELSE /\ Goto("loop_top")
                     /\ first_batch' = FALSE
                     /\ UNCHANGED << batch_count, total_num_messages,
                                     wait_before_next_batch,
                                     event_id_for_next_batch, source_pos,
                                     update, batchVars >>
    /\ UNCHANGED << envVars, args, ctrl_c_pressed, retry, other_events, seconds_waited, finished, histVars >>

Next ==
    \/ StoreChange
    \/ CtrlC
    \/ Startup
    \/ LoopTop
    \/ Connect
    \/ OffsetGuard
    \/ ProcessEvent
    \/ UseCachedFile
    \/ BuildUpdate
    \/ ApplyUpdate
    \/ FinishBatch

Spec == Init /\ [][Next]_vars

\* ------------------------------------ the netting of triples, step by step

\* Longest sequence of operations applied to one triple.
MaxOps == 3

\* A batch under assembly, before its first triple.
InitDiff ==
    /\ args = DefaultArgs
    /\ stream = [o \in Offsets |-> Undelivered]
    /\ store_offsets = {1}
    /\ store_index = {1}
    /\ store_dates = IndexDates({1})
    /\ store_changes = 0
    /\ files = << >>
    /\ pc = "diff"
    /\ ret = "running"
    /\ ctrl_c_pressed = FALSE
    /\ retry = NoRetry
    /\ other_events = << >>
    /\ seconds_waited = 0
    /\ finished = FALSE
    /\ batch_count = 0
    /\ total_num_messages = 0
    /\ wait_before_next_batch = FALSE
    /\ event_id_for_next_batch = None
    /\ first_batch = TRUE
    /\ source_pos = 1
    /\ open_sources = 1
    /\ first_offset_in_batch = 1
    /\ current_batch_size = 0
    /\ date_list = {}
    /\ delete_entity_ids = {}
    /\ insert_triples = {}
    /\ delete_triples = {}
    /\ use_cached_file = FALSE
    /\ update = NoUpdate
    /\ start_from = "endpoint"
    /\ guard = NoGuard
    /\ close_by = NoClose
    /\ last_apply = "none"
    /\ triple_ops = [t \in Triples |-> << >>]
    /\ within_lag = "none"

\* The variables a triple operation leaves alone.
diffFixed == << envVars, args, pc, ret, ctrl_c_pressed, retry, other_events, seconds_waited, finished, open_sources,
                loopVars, first_offset_in_batch, current_batch_size, date_list,
                delete_entity_ids, use_cached_file, start_from, guard,
                close_by, last_apply, within_lag >>

\* Lines 775-781: the body of the loop over a to-be-deleted graph, for one
\* triple of any message of the batch.
ApplyDeleteTriple ==
    /\ pc = "diff"
    /\ \E triple \in Triples :
          /\ Len(triple_ops[triple]) < MaxOps
          /\ LET sets == DeleteTriple([insert_triples |-> insert_triples,
                                       delete_triples |-> delete_triples],
                                      triple)
             IN  /\ insert_triples' = sets.insert_triples
                 /\ delete_triples' = sets.delete_triples
          /\ triple_ops' = [triple_ops EXCEPT
                                ![triple] = Append(@, "delete")]
    /\ UNCHANGED diffFixed

\* Lines 808-814: the body of the loop over a to-be-added graph.
ApplyInsertTriple ==
    /\ pc = "diff"
    /\ \E triple \in Triples :
          /\ Len(triple_ops[triple]) < MaxOps
          /\ LET sets == InsertTriple([insert_triples |-> insert_triples,
                                       delete_triples |-> delete_triples],
                                      triple)
             IN  /\ insert_triples' = sets.insert_triples
                 /\ delete_triples' = sets.delete_triples
          /\ triple_ops' = [triple_ops EXCEPT
                                ![triple] = Append(@, "insert")]
    /\ UNCHANGED diffFixed

NextDiff ==
    \/ ApplyDeleteTriple
    \/ ApplyInsertTriple

SpecDiff == InitDiff /\ [][NextDiff]_vars

\* ----------------------------------------- the dates on wikibase:Dump

\* An endpoint with any dates on wikibase:Dump, before a batch.
InitWatermark ==
    /\ args = DefaultArgs
    /\ stream = [o \in Offsets |-> Undelivered]
    /\ store_offsets = {1}
    /\ store_index = {1}
    /\ store_dates \in [date_modified : SUBSET Dates,
                        updates_complete_until : SUBSET Dates]
    /\ store_changes = 0
    /\ files = << >>
    /\ pc = "watermark"
    /\ ret = "running"
    /\ ctrl_c_pressed = FALSE
    /\ retry = NoRetry
    /\ other_events = << >>
    /\ seconds_waited = 0
    /\ finished = FALSE
    /\ batch_count = 0
    /\ total_num_messages = 0
    /\ wait_before_next_batch = FALSE
    /\ event_id_for_next_batch = 1
    /\ first_batch = TRUE
    /\ source_pos = 1
    /\ open_sources = 1
    /\ first_offset_in_batch = 1
    /\ current_batch_size = 0
    /\ date_list = {}
    /\ delete_entity_ids = {}
    /\ insert_triples = {}
    /\ delete_triples = {}
    /\ use_cached_file = FALSE
    /\ update = NoUpdate
    /\ start_from = "endpoint"
    /\ guard = NoGuard
    /\ close_by = NoClose
    /\ last_apply = "none"
    /\ triple_ops = [t \in Triples |-> << >>]
    /\ within_lag = "none"

\* Lines 844 and 914-919: a batch whose messages have the dates `dates` is
\* assembled under a --min-or-max-date.
WatermarkBatch ==
    /\ pc = "watermark"
    /\ batch_count < MaxBatches
    /\ \E dates \in SUBSET Dates \ {{}}, policy \in {"min", "max"} :
          /\ date_list' = dates
          /\ args' = [args EXCEPT !.min_or_max_date = policy]
    /\ pc' = "watermark_apply"
    /\ UNCHANGED << envVars, ret, ctrl_c_pressed, retry, other_events, seconds_waited, finished, open_sources,
                    loopVars, first_offset_in_batch, current_batch_size,
                    delete_entity_ids, insert_triples, delete_triples,
                    use_cached_file, histVars >>

\* Lines 902-966 and 993-1028: its update is built and the endpoint executes
\* it.
WatermarkApply ==
    /\ pc = "watermark_apply"
    /\ update' = UpdateOperation
    /\ store_dates' = DatesAfter(UpdateOperation)
    /\ batch_count' = batch_count + 1
    /\ pc' = "watermark"
    /\ UNCHANGED << stream, store_offsets, store_index, store_changes, files,
                    args, ret, ctrl_c_pressed, retry, other_events, seconds_waited, finished, open_sources,
                    total_num_messages, wait_before_next_batch,
                    event_id_for_next_batch, first_batch, source_pos,
                    batchVars, histVars >>

NextWatermark ==
    \/ WatermarkBatch
    \/ WatermarkApply

SpecWatermark == InitWatermark /\ [][NextWatermark]_vars

\* ------------------------------------------------------ retry_with_backoff

\* The largest --num-retries of the model (the default is 10).
MaxRetries == 10

\* Line 39.
backoff_intervals == << 5, 10, 30, 60, 300, 900, 1800, 3600 >>

\* RetryDelay with the first interval for every attempt.
RetryDelayFirst(attempt) == backoff_intervals[1]

\* Lines 46-52: the delay after the failed attempt `attempt` (from 0).
RetryDelay(attempt) ==
    IF attempt < Len(backoff_intervals)
       THEN backoff_intervals[attempt + 1]
       ELSE backoff_intervals[Len(backoff_intervals)]

\* The operations that execute calls with retry_with_backoff for a batch.
RetryOperations == {"connect", "offset", "update"}

\* What one attempt of an operation can give: "error" is an exception of the
\* operation; an UPDATE request can return text that is not JSON, a JSON with
\* an "exception" or the JSON of an executed update.
AttemptOutcomes(operation_name) ==
    IF operation_name = "update"
       THEN {"error", "not_json", "exception", "ok"}
       ELSE {"error", "ok"}

\* The batch whose update is sent in the model of the retries: the message at
\* offset 1, which adds t1 to A, and the update built from it (lines 902-966).
RetriedBatchMsg ==
    Msg("A", "diff", 1, "ok", Payload({"t1"}), NoPayload, NoPayload, NoPayload, TRUE)

RetriedBatchUpdate ==
    [delete |-> {}, insert |-> {"t1"}, date_modified |-> 1,
     updates_complete_until |-> 1, next_offset |-> 2, delete_where |-> {}]

\* execute is about to call retry_with_backoff for an operation, with some
\* --num-retries.
InitRetry ==
    /\ \E operation_name \in RetryOperations, max_retries \in 0..MaxRetries :
          retry = [operation_name |-> operation_name,
                   max_retries |-> max_retries, attempt |-> 0,
                   slept |-> << >>, result |-> "none"]
    /\ pc = "retry_loop"
    /\ other_events = << >>
    /\ seconds_waited = 0
    /\ args = DefaultArgs
    /\ stream = IF retry.operation_name = "update"
                   THEN [o \in Offsets |->
                           IF o = 1 THEN RetriedBatchMsg ELSE Undelivered]
                   ELSE [o \in Offsets |-> Undelivered]
    /\ store_offsets = {1}
    /\ store_index = {1}
    /\ store_dates = IndexDates({1})
    /\ store_changes = 0
    /\ files = << >>
    /\ ret = "running"
    /\ ctrl_c_pressed = FALSE
    /\ finished = FALSE
    /\ batch_count = IF retry.operation_name = "update" THEN 1 ELSE 0
    /\ total_num_messages = IF retry.operation_name = "update" THEN 1 ELSE 0
    /\ wait_before_next_batch = FALSE
    /\ event_id_for_next_batch =
          IF retry.operation_name = "update" THEN 2 ELSE 1
    /\ first_batch = TRUE
    /\ source_pos = IF retry.operation_name = "update" THEN 2 ELSE 1
    /\ open_sources = IF retry.operation_name = "connect" THEN 0 ELSE 1
    /\ first_offset_in_batch = 1
    /\ current_batch_size = IF retry.operation_name = "update" THEN 1 ELSE 0
    /\ date_list = IF retry.operation_name = "update" THEN {1} ELSE {}
    /\ delete_entity_ids = {}
    /\ insert_triples = IF retry.operation_name = "update" THEN {"t1"} ELSE {}
    /\ delete_triples = {}
    /\ use_cached_file = FALSE
    /\ update = IF retry.operation_name = "update"
                   THEN RetriedBatchUpdate
                   ELSE NoUpdate
    /\ start_from = "endpoint"
    /\ guard = NoGuard
    /\ close_by = NoClose
    /\ last_apply = "none"
    /\ triple_ops = [t \in Triples |-> << >>]
    /\ within_lag = "none"

\* What retry_with_backoff and its caller leave alone.
retryFixed == << envVars, args, finished, other_events, seconds_waited,
                histVars >>

\* Proceed if the next message of the stream were read on the way.
ProceedNextEvent(next) ==
    /\ Goto(next)
    /\ source_pos' = source_pos + 1
    /\ current_batch_size' = current_batch_size + 1
    /\ UNCHANGED << batch_count, total_num_messages, wait_before_next_batch,
                    event_id_for_next_batch, first_batch, update,
                    first_offset_in_batch, date_list, delete_entity_ids,
                    insert_triples, delete_triples, use_cached_file >>

\* The caller goes on after the call.
Proceed(next) ==
    /\ Goto(next)
    /\ UNCHANGED << loopVars, batchVars >>

\* Line 41: `for attempt in range(max_retries)`; when the range is used up
\* (only an empty one can be) the function ends without a `return`.
RetryLoop ==
    /\ pc = "retry_loop"
    /\ IF retry.attempt < retry.max_retries
          THEN /\ Proceed("retry_try")
               /\ UNCHANGED retry
          ELSE /\ Proceed("retry_returned")
               /\ retry' = [retry EXCEPT !.result = "None"]
    /\ UNCHANGED << retryFixed, ctrl_c_pressed, open_sources >>

\* Lines 42-67: one attempt. A result is returned; after an exception the
\* function sleeps if an attempt is left and raises the exception otherwise.
RetryAttempt(outcome) ==
    IF outcome = "error"
       THEN IF retry.attempt < retry.max_retries - 1
               THEN /\ Proceed("retry_sleep")
                    /\ retry' = [retry EXCEPT
                          !.slept = Append(@, RetryDelay(retry.attempt))]
               ELSE /\ Proceed("retry_raised")
                    /\ retry' = [retry EXCEPT !.result = "error"]
       ELSE /\ Proceed("retry_returned")
            /\ retry' = [retry EXCEPT !.result = outcome]

RetryTry ==
    /\ pc = "retry_try"
    /\ \E outcome \in AttemptOutcomes(retry.operation_name) :
          RetryAttempt(outcome)
    /\ UNCHANGED << retryFixed, ctrl_c_pressed, open_sources >>

\* Line 64: time.sleep(retry_delay) is over. It does not look at
\* ctrl_c_pressed, and the handler of SIGINT returns normally, so the sleep
\* is not cut short by an exception.
RetrySleep ==
    /\ pc = "retry_sleep"
    /\ retry' = [retry EXCEPT !.attempt = @ + 1]
    /\ Proceed("retry_loop")
    /\ UNCHANGED << retryFixed, ctrl_c_pressed, open_sources >>

\* Lines 259-264: Ctrl+C during an attempt or a sleep sets the flag.
RetryCtrlC ==
    /\ pc \in {"retry_try", "retry_sleep"}
    /\ ~ctrl_c_pressed
    /\ ctrl_c_pressed' = TRUE
    /\ UNCHANGED << retryFixed, pc, ret, retry, open_sources, loopVars,
                    batchVars >>

\* Lines 449-465: the caller that connects to the stream. An exception ends
\* the main loop (`break`), and execute returns True.
ConnectCaller ==
    /\ retry.operation_name = "connect"
    /\ \/ /\ pc = "retry_raised"
          /\ Return("True")
          /\ UNCHANGED open_sources
       \/ /\ pc = "retry_returned"
          /\ Proceed("connected")
          /\ open_sources' = IF retry.result = "ok" THEN open_sources + 1
                                                    ELSE open_sources
    /\ UNCHANGED << retryFixed, ctrl_c_pressed, retry >>

\* Lines 506-570: the caller that reads the offset of the endpoint.
OffsetCaller ==
    /\ retry.operation_name = "offset"
    /\ \/ /\ pc = "retry_raised"
          /\ Return("False")
       \/ /\ pc = "retry_returned"
          /\ IF retry.result = "ok"
                THEN Proceed("offset_read")
                ELSE \* `if not result`
                     Return("False")
    /\ UNCHANGED << retryFixed, ctrl_c_pressed, retry, open_sources >>

\* Lines 994-1028: the caller that sends the update.
UpdateCaller ==
    /\ retry.operation_name = "update"
    /\ \/ /\ pc = "retry_raised"
          /\ Return("False")
       \/ /\ pc = "retry_returned"
          /\ IF AfterUpdate(retry.result) = "done"
                THEN Return("False")
                ELSE Proceed(AfterUpdate(retry.result))
    /\ UNCHANGED << retryFixed, ctrl_c_pressed, retry, open_sources >>

NextRetry ==
    \/ RetryLoop
    \/ RetryTry
    \/ RetrySleep
    \/ RetryCtrlC
    \/ ConnectCaller
    \/ OffsetCaller
    \/ UpdateCaller

SpecRetry == InitRetry /\ [][NextRetry]_vars

\* ------------------------------------------------- events passed over

\* The largest number of events the inner loop passes over in the model.
MaxOtherEvents == 2

\* The events of the source that are not messages of the topic: an event
\* whose type is not `message`, one without data, a message of another topic.
OtherEvents == {"not_message", "no_data", "other_topic"}

\* A batch is open at offset 1, with the default command line or with a
\* limit on the number of messages.
InitTopic ==
    /\ args \in {DefaultArgs, [DefaultArgs EXCEPT !.num_messages = 2]}
    /\ stream = [o \in Offsets |-> Undelivered]
    /\ store_offsets = {1}
    /\ store_index = {1}
    /\ store_dates = IndexDates({1})
    /\ store_changes = 0
    /\ files = << >>
    /\ pc = "assemble"
    /\ ret = "running"
    /\ ctrl_c_pressed = FALSE
    /\ retry = NoRetry
    /\ other_events = << >>
    /\ seconds_waited = 0
    /\ finished = FALSE
    /\ batch_count = 0
    /\ total_num_messages = 0
    /\ wait_before_next_batch = FALSE
    /\ event_id_for_next_batch = None
    /\ first_batch = TRUE
    /\ source_pos = 1
    /\ open_sources = 1
    /\ first_offset_in_batch = 1
    /\ current_batch_size = 0
    /\ date_list = {}
    /\ delete_entity_ids = {}
    /\ insert_triples = {}
    /\ delete_triples = {}
    /\ use_cached_file = FALSE
    /\ update = NoUpdate
    /\ start_from = "endpoint"
    /\ guard = [result |-> "skipped", endpoint_offset |-> None,
                expected |-> 1, prev |-> "none"]
    /\ close_by = NoClose
    /\ last_apply = "none"
    /\ triple_ops = [t \in Triples |-> << >>]
    /\ within_lag = "none"

\* PassOver if an event of another topic were counted as a message of the
\* batch.
PassOverCounted ==
    /\ current_batch_size' = current_batch_size + 1
    /\ total_num_messages' = total_num_messages + 1
    /\ UNCHANGED << pc, ret, batch_count, wait_before_next_batch,
                    event_id_for_next_batch, first_batch, source_pos, update,
                    first_offset_in_batch, date_list, delete_entity_ids,
                    insert_triples, delete_triples, use_cached_file >>

\* Lines 622-628: `continue`.
PassOver ==
    UNCHANGED << pc, ret, loopVars, batchVars >>

\* Lines 618-628: the source yields an event that is not a message of the
\* topic; the loop goes on with the next event.
OtherEvent ==
    /\ pc = "assemble"
    /\ ~use_cached_file
    /\ Len(other_events) < MaxOtherEvents
    /\ \E kind \in OtherEvents :
           other_events' = Append(other_events,
                                  [kind |-> kind, at |-> current_batch_size])
    /\ PassOver
    /\ UNCHANGED << envVars, args, ctrl_c_pressed, retry, seconds_waited,
                    finished, open_sources, histVars >>

NextTopic ==
    \/ OtherEvent
    \/ ProcessEvent

SpecTopic == InitTopic /\ [][NextTopic]_vars

\* ------------------------------------------------ the wait between batches

\* The first batch, of the message at offset 1, is done and the main loop is
\* back at its top, with or without a wait requested; the endpoint holds the
\* offset of that batch or was restarted from its index since.
InitWait ==
    /\ \E seconds \in 1..MaxWait :
          args = [DefaultArgs EXCEPT !.wait_between_batches = seconds]
    /\ stream = [o \in Offsets |->
                    IF o = 1 THEN RetriedBatchMsg ELSE Undelivered]
    /\ store_offsets \in {{1}, {1, 2}}
    /\ store_index = {1}
    /\ store_dates = DatesAfterFirst
    /\ store_changes = 0
    /\ files = << >>
    /\ pc = "wait_begin"
    /\ ret = "running"
    /\ ctrl_c_pressed = FALSE
    /\ retry = NoRetry
    /\ other_events = << >>
    /\ seconds_waited = 0
    /\ finished = FALSE
    /\ batch_count = 1
    /\ total_num_messages = 1
    /\ wait_before_next_batch \in BOOLEAN
    /\ event_id_for_next_batch = 2
    /\ first_batch = FALSE
    /\ source_pos = 2
    /\ open_sources = 0
    /\ first_offset_in_batch = 1
    /\ current_batch_size = 1
    /\ date_list = {1}
    /\ delete_entity_ids = {}
    /\ insert_triples = {"t1"}
    /\ delete_triples = {}
    /\ use_cached_file = FALSE
    /\ update = RetriedBatchUpdate
    /\ start_from = "endpoint"
    /\ guard = [result |-> "skipped", endpoint_offset |-> None,
                expected |-> 1, prev |-> "none"]
    /\ close_by = [reason |-> IF wait_before_next_batch THEN "fresh"
                                                        ELSE "size",
                   offset |-> 2, next |-> 2]
    /\ last_apply = "applied"
    /\ triple_ops = [t \in Triples |-> << >>]
    /\ within_lag = IF wait_before_next_batch THEN "yes" ELSE "none"

\* What the wait leaves alone.
waitFixed == << envVars, args, retry, other_events, finished, open_sources,
                histVars >>

\* Line 409 and 416: `if wait_before_next_batch`, which is reset.
WaitBegin ==
    /\ pc = "wait_begin"
    /\ IF wait_before_next_batch
          THEN /\ wait_before_next_batch' = FALSE
               /\ seconds_waited' = 0
               /\ Goto("wait_loop")
          ELSE /\ Goto("wait_done")
               /\ UNCHANGED << wait_before_next_batch, seconds_waited >>
    /\ UNCHANGED << waitFixed, ctrl_c_pressed, batch_count,
                    total_num_messages, event_id_for_next_batch, first_batch,
                    source_pos, update, batchVars >>

\* StopWaiting without the check of line 418.
StopWaitingNever == FALSE

\* Lines 418-419: `if self.ctrl_c_pressed: break`.
StopWaiting == ctrl_c_pressed

\* Lines 417-419: `for _ in range(args.wait_between_batches)`, with the check
\* of the flag before each second.
WaitLoop ==
    /\ pc = "wait_loop"
    /\ IF seconds_waited < args.wait_between_batches /\ ~StopWaiting
          THEN Goto("wait_sleep")
          ELSE Goto("wait_done")
    /\ UNCHANGED << waitFixed, ctrl_c_pressed, seconds_waited, loopVars,
                    batchVars >>

\* Line 420: time.sleep(1) is over.
WaitSleep ==
    /\ pc = "wait_sleep"
    /\ seconds_waited' = seconds_waited + 1
    /\ Goto("wait_loop")
    /\ UNCHANGED << waitFixed, ctrl_c_pressed, loopVars, batchVars >>

\* Lines 421-426: "Ctrl+C pressed while waiting in between batches, exiting",
\* or on to the connection.
WaitDone ==
    /\ pc = "wait_done"
    /\ IF ctrl_c_pressed
          THEN Return("True")
          ELSE /\ Goto("connect")
               /\ UNCHANGED << loopVars, batchVars >>
    /\ UNCHANGED << waitFixed, ctrl_c_pressed, seconds_waited >>

\* Lines 259-264: Ctrl+C at the top of the loop or during the wait.
WaitCtrlC ==
    /\ pc \in {"wait_begin", "wait_loop", "wait_sleep", "wait_done"}
    /\ ~ctrl_c_pressed
    /\ ctrl_c_pressed' = TRUE
    /\ UNCHANGED << waitFixed, pc, ret, seconds_waited, loopVars, batchVars >>

NextWait ==
    \/ WaitBegin
    \/ WaitLoop
    \/ WaitSleep
    \/ WaitDone
    \/ WaitCtrlC
    \/ Connect
    \/ OffsetGuard

SpecWait == InitWait /\ [][NextWait]_vars

\* ------------------------------------------------------- node_to_sparql

\* Longest object term of the model, in characters.
MaxTermLen == 4

\* The characters of the terms: the backslash, `u` and one other character.
TermChars == {"\\", "u", "x"}

\* The object terms as rdflib serializes them (node.n3()), as sequences of
\* characters.
Terms == UNION { [1..n -> TermChars] : n \in 0..MaxTermLen }

\* `\\`
EscapedPair ==
    << "\\", "u", "0", "0", "5", "C", "\\", "u", "0", "0", "5", "C" >>

\* node_to_sparql with str.replace(old, new, 1): only the first pair is
\* replaced.
RECURSIVE node_to_sparql_first(_)
node_to_sparql_first(n3) ==
    IF Len(n3) < 2 THEN n3
    ELSE IF n3[1] = "\\" /\ n3[2] = "\\"
       THEN EscapedPair \o SubSeq(n3, 3, Len(n3))
       ELSE << n3[1] >> \o node_to_sparql_first(Tail(n3))

\* Lines 750-753: node.n3().replace("\\\\", "\\u005C\\u005C"). str.replace
\* goes from left to right and replaces the occurrences that do not overlap.
RECURSIVE node_to_sparql(_)
node_to_sparql(n3) ==
    IF Len(n3) < 2 THEN n3
    ELSE IF n3[1] = "\\" /\ n3[2] = "\\"
       THEN EscapedPair \o node_to_sparql(SubSeq(n3, 3, Len(n3)))
       ELSE << n3[1] >> \o node_to_sparql(Tail(n3))

\* A batch under assembly; the message at offset 1 adds one triple, whose
\* object is some term.
InitEscape ==
    /\ \E n3 \in Terms :
          stream = [o \in Offsets |->
                       IF o = 1 THEN [operation |-> "diff", object |-> n3]
                                ELSE Undelivered]
    /\ args = DefaultArgs
    /\ store_offsets = {1}
    /\ store_index = {1}
    /\ store_dates = IndexDates({1})
    /\ store_changes = 0
    /\ files = << >>
    /\ pc = "triple"
    /\ ret = "running"
    /\ ctrl_c_pressed = FALSE
    /\ retry = NoRetry
    /\ other_events = << >>
    /\ seconds_waited = 0
    /\ finished = FALSE
    /\ batch_count = 0
    /\ total_num_messages = 0
    /\ wait_before_next_batch = FALSE
    /\ event_id_for_next_batch = None
    /\ first_batch = TRUE
    /\ source_pos = 1
    /\ open_sources = 1
    /\ first_offset_in_batch = 1
    /\ current_batch_size = 0
    /\ date_list = {}
    /\ delete_entity_ids = {}
    /\ insert_triples = {}
    /\ delete_triples = {}
    /\ use_cached_file = FALSE
    /\ update = NoUpdate
    /\ start_from = "endpoint"
    /\ guard = NoGuard
    /\ close_by = NoClose
    /\ last_apply = "none"
    /\ triple_ops = [t \in Triples |-> << >>]
    /\ within_lag = "none"

\* Lines 806-814: the triple of the message goes into insert_triples, its
\* object as node_to_sparql gives it.
AddTriple ==
    /\ pc = "triple"
    /\ insert_triples' = insert_triples \cup {node_to_sparql(stream[1].object)}
    /\ pc' = "added"
    /\ UNCHANGED << envVars, args, ret, ctrl_c_pressed, retry, other_events,
                    seconds_waited, finished, open_sources, loopVars,
                    first_offset_in_batch, current_batch_size, date_list,
                    delete_entity_ids, delete_triples, use_cached_file,
                    histVars >>

NextEscape == AddTriple

SpecEscape == InitEscape /\ [][NextEscape]_vars

\* ------------------------------------------------------------- properties

\* Where a triple stands in the two sets of the batch.
Membership(t) == << t \in insert_triples, t \in delete_triples >>

\* The number of operations `op` in a sequence of operations.
CountOps(ops, op) == Cardinality({i \in DOMAIN ops : ops[i] = op})

\* The parities of the inserts and of the deletes of a sequence.
Parity(ops) == << CountOps(ops, "insert") % 2, CountOps(ops, "delete") % 2 >>

\* The last operation of a sequence.
LastOp(ops) == ops[Len(ops)]

\* t has just been deleted, inserted (SpecDiff).
DeleteStep(t) == triple_ops'[t] = Append(triple_ops[t], "delete")
InsertStep(t) == triple_ops'[t] = Append(triple_ops[t], "insert")

\* The command line has the offset check and the rewind enabled.
ChecksEnabled ==
    /\ args.check_offset_before_each_batch = "yes"
    /\ args.rewind_to_earlier_offset = "yes"

\* The endpoint executes the update of the batch (a step of ApplyUpdate).
AcceptStep == pc = "apply" /\ pc' = "stats"

\* The offset check has read an offset from the endpoint and decides (a step
\* of OffsetGuard).
DecideStep ==
    /\ pc = "guard"
    /\ CheckOffset(event_id_for_next_batch)
    /\ EndpointOffset # None
    /\ guard'.result # "failed"

\* C1: in a run that started from the offset of the endpoint, with the offset
\* check and the rewind enabled, the first offset of every batch the endpoint
\* accepts is the offset the endpoint held just before.
C1_NoSilentDivergence ==
    [][(AcceptStep /\ start_from = "endpoint" /\ ChecksEnabled)
          => first_offset_in_batch = EndpointOffset]_vars

\* C2: after the endpoint answered a batch's update with an exception, the
\* next batch that is assembled starts at the offset the endpoint holds (with
\* the offset check and the rewind enabled).
C2_RederiveAfterException ==
    [][(pc = "guard" /\ pc' = "assemble" /\ last_apply = "exception"
           /\ ChecksEnabled)
          => first_offset_in_batch' = EndpointOffset]_vars

\* C3, as claimed: for the offset W of the endpoint and the first offset E
\* expected for the batch, W = E lets the batch start at E, W < E rewinds to W
\* and W > E ends the run.
C3_GuardDecisionAnyConfig ==
    [][DecideStep =>
          LET W == EndpointOffset
              E == event_id_for_next_batch
          IN  /\ W = E => (pc' = "assemble" /\ first_offset_in_batch' = E)
              /\ W < E => (pc' = "loop_top" /\ event_id_for_next_batch' = W)
              /\ W > E => (pc' = "done" /\ ret' = "False")]_vars

\* C3, amended: W = E lets the batch start at E; W < E with
\* --rewind-to-earlier-offset=yes sets the event ID to W and goes back to the
\* top of the loop, with no message consumed and no update sent, and with
\* --rewind-to-earlier-offset=no ends the run with False; W > E ends the run
\* with False, with no reconnection and no update sent.
C3_GuardDecision ==
    [][DecideStep =>
          LET W == EndpointOffset
              E == event_id_for_next_batch
              quiet == UNCHANGED << stream, store_offsets, files, open_sources >>
          IN  /\ W = E => /\ guard'.result = "match"
                          /\ pc' = "assemble"
                          /\ first_offset_in_batch' = E
                          /\ source_pos' = E
              /\ (W < E /\ args.rewind_to_earlier_offset = "yes")
                    => /\ guard'.result = "rewind"
                       /\ pc' = "loop_top"
                       /\ ret' = "running"
                       /\ event_id_for_next_batch' = W
                       /\ UNCHANGED << total_num_messages, batch_count >>
                       /\ quiet
              /\ (W < E /\ args.rewind_to_earlier_offset # "yes")
                    => /\ guard'.result = "later"
                       /\ pc' = "done"
                       /\ ret' = "False"
                       /\ quiet
              /\ W > E => /\ guard'.result = "earlier"
                          /\ pc' = "done"
                          /\ ret' = "False"
                          /\ quiet]_vars

\* The offset check has found the endpoint behind the stream and has set the
\* event ID back.
C3_Rewound ==
    /\ pc = "loop_top"
    /\ guard.result = "rewind"
    /\ guard.endpoint_offset < guard.expected
    /\ event_id_for_next_batch = guard.endpoint_offset

C5_WatermarkReadBeforeBatch ==
    (pc = "assemble" /\ args.check_offset_before_each_batch = "yes"
        /\ batch_count >= 1)
       => guard.result = "match"

\* C6, as claimed: where a triple ends up depends only on the parity of its
\* inserts and deletes, not on their order, and one insert and one delete of
\* it, in either order, leave it in neither set.
C6_ParityDecides ==
    /\ \A t1, t2 \in Triples :
          Parity(triple_ops[t1]) = Parity(triple_ops[t2])
             => Membership(t1) = Membership(t2)
    /\ \A t \in Triples :
          ( /\ CountOps(triple_ops[t], "insert") = 1
            /\ CountOps(triple_ops[t], "delete") = 1 )
             => Membership(t) = << FALSE, FALSE >>

\* C6, amended: where a triple ends up depends only on its last operation
\* (insert: in insert_triples only, delete: in delete_triples only, none: in
\* neither), so one insert and one delete of it leave it in the set of the
\* later of the two.
C6_LastOperationDecides ==
    \A t \in Triples :
       LET ops == triple_ops[t]
       IN  /\ ops = << >> => Membership(t) = << FALSE, FALSE >>
           /\ (ops # << >> /\ LastOp(ops) = "insert")
                 => Membership(t) = << TRUE, FALSE >>
           /\ (ops # << >> /\ LastOp(ops) = "delete")
                 => Membership(t) = << FALSE, TRUE >>

\* An insert and then a delete of t1: it is to be deleted.
C6_InsertThenDelete ==
    /\ triple_ops["t1"] = << "insert", "delete" >>
    /\ Membership("t1") = << FALSE, TRUE >>

\* C7: insert_triples and delete_triples are disjoint after every single
\* triple operation.
C7_Disjoint == insert_triples \cap delete_triples = {}

\* A triple that was in insert_triples has been deleted while the other
\* triple is in insert_triples.
C7_MovedAcross ==
    /\ Len(triple_ops["t1"]) = 3
    /\ triple_ops["t1"][2] = "insert"
    /\ triple_ops["t1"][3] = "delete"
    /\ "t1" \in delete_triples
    /\ "t2" \in insert_triples

\* C8, as claimed: a delete of T removes it from insert_triples if it is
\* there and only otherwise adds it to delete_triples; an insert of T removes
\* it from delete_triples if it is there and only otherwise adds it to
\* insert_triples.
C8_CancellingStepRule ==
    [][\A t \in Triples :
          /\ DeleteStep(t) =>
                IF t \in insert_triples
                   THEN /\ insert_triples' = insert_triples \ {t}
                        /\ delete_triples' = delete_triples
                   ELSE /\ insert_triples' = insert_triples
                        /\ delete_triples' = delete_triples \cup {t}
          /\ InsertStep(t) =>
                IF t \in delete_triples
                   THEN /\ delete_triples' = delete_triples \ {t}
                        /\ insert_triples' = insert_triples
                   ELSE /\ delete_triples' = delete_triples
                        /\ insert_triples' = insert_triples \cup {t}]_vars

\* C8, amended: a delete of T removes it from insert_triples if it is there
\* and in every case adds it to delete_triples; an insert of T removes it from
\* delete_triples if it is there and in every case adds it to insert_triples.
\* No other triple is touched.
C8_StepRule ==
    [][\A t \in Triples :
          /\ DeleteStep(t) =>
                /\ insert_triples' = insert_triples \ {t}
                /\ delete_triples' = delete_triples \cup {t}
          /\ InsertStep(t) =>
                /\ delete_triples' = delete_triples \ {t}
                /\ insert_triples' = insert_triples \cup {t}]_vars

\* A delete of t2 has just followed its insert, while t1 is to be deleted.
C8_DeleteAfterInsert ==
    /\ triple_ops["t2"] = << "insert", "delete" >>
    /\ "t2" \in delete_triples
    /\ "t2" \notin insert_triples
    /\ "t1" \in delete_triples

\* The inner loop ends on a message that adds data to an entity deleted in
\* the batch (a step of ProcessEvent).
ConflictCloseStep ==
    /\ pc = "assemble"
    /\ pc' = "build"
    /\ close_by'.reason = "conflict"

\* The batch that follows one closed by a conflict consumes its first message
\* (a step of ProcessEvent); source_pos is the offset of that message.
FirstConsumeAfterConflict ==
    /\ pc = "assemble"
    /\ ~use_cached_file
    /\ batch_count >= 1
    /\ close_by.reason = "conflict"
    /\ current_batch_size = 0
    /\ current_batch_size' = 1

\* C9, as claimed: a batch that has consumed the deletion of an entity closes
\* on the next message that adds data to the entity without consuming it (the
\* two sets, the number of messages and the event ID stay as they are), and
\* (the endpoint having executed its update) the first message the next
\* batch consumes is that message.
C9_ConflictClosingAlways ==
    [][/\ ConflictCloseStep
          => /\ stream'[source_pos].entity_id \in delete_entity_ids
             /\ UNCHANGED << insert_triples, delete_triples,
                             current_batch_size, total_num_messages,
                             event_id_for_next_batch >>
       /\ (FirstConsumeAfterConflict /\ last_apply = "applied")
          => source_pos = close_by.offset]_vars

\* C9, amended: ... and when the next batch starts at the event ID the closed
\* batch left and that message is well-formed (its date parses), the first
\* message the next batch consumes is that message.
C9_ConflictClosing ==
    [][/\ ConflictCloseStep
          => /\ stream'[source_pos].entity_id \in delete_entity_ids
             /\ OperationAddsData(stream'[source_pos])
             /\ close_by'.offset = source_pos
             /\ UNCHANGED << insert_triples, delete_triples,
                             current_batch_size, total_num_messages,
                             event_id_for_next_batch, source_pos >>
       /\ (FirstConsumeAfterConflict
              /\ first_offset_in_batch = close_by.next
              /\ stream[close_by.offset].dt_ok = "ok")
          => source_pos = close_by.offset]_vars

\* The batch after one closed by a conflict has started at the event ID that
\* batch left and has consumed the message that closed it.
C9_ResumedAtConflict ==
    /\ pc = "assemble"
    /\ batch_count >= 1
    /\ close_by.reason = "conflict"
    /\ first_offset_in_batch = close_by.next
    /\ current_batch_size = 1
    /\ source_pos = close_by.offset + 1
    /\ event_id_for_next_batch = close_by.offset + 1
    /\ insert_triples # {}

\* The messages from offset `from` up to (not including) offset `to` that the
\* inner loop skips because their date does not parse.
SkippedIn(from, to) ==
    {o \in Offsets : /\ from <= o
                     /\ o < to
                     /\ stream[o] # Undelivered
                     /\ stream[o].dt_ok = "unparsable"}

\* C10, as claimed: when a batch that started at offset O and consumed N
\* messages closes, the event ID for the next batch is O + N.
C10_TokenIsFirstPlusCount ==
    (pc = "build" /\ ~use_cached_file /\ current_batch_size >= 1)
       => event_id_for_next_batch = first_offset_in_batch + current_batch_size

\* C10, amended: when a batch that started at offset O and consumed N >= 1
\* messages closes, the event ID for the next batch is O + N plus the number
\* of messages skipped before the last consumed one (so O + N when none was
\* skipped), whichever condition closed it; for a batch taken from a cached
\* file it is O + the batch size.
C10_OffsetMonotonicity ==
    /\ (pc = "build" /\ ~use_cached_file /\ current_batch_size >= 1)
          => /\ event_id_for_next_batch > first_offset_in_batch
             /\ event_id_for_next_batch
                   = first_offset_in_batch + current_batch_size
                     + Cardinality(SkippedIn(first_offset_in_batch,
                                             event_id_for_next_batch))
    /\ (pc = "build" /\ use_cached_file)
          => event_id_for_next_batch = first_offset_in_batch + args.batch_size

\* A batch has closed after consuming two messages with a skipped one between
\* them.
C10_ClosedAfterSkip ==
    /\ pc = "build"
    /\ ~use_cached_file
    /\ current_batch_size = 2
    /\ SkippedIn(first_offset_in_batch, event_id_for_next_batch)
          = {first_offset_in_batch + 1}
    /\ event_id_for_next_batch = first_offset_in_batch + 3

\* The inner loop handles the message at source_pos (a step of ProcessEvent).
EventStep ==
    /\ pc = "assemble"
    /\ ~use_cached_file
    /\ (source_pos' # source_pos \/ pc' # pc)

\* C11, as claimed: a batch without messages never closes on a message within
\* the lag, which is consumed instead, and a batch of exactly one message
\* closes, with that one message, on the next message that is within the lag.
C11_FreshnessAlwaysConsumes ==
    [][EventStep =>
          /\ (pc' = "build" /\ close_by'.reason = "fresh")
                => current_batch_size > 0
          /\ (within_lag' = "yes" /\ current_batch_size = 0)
                => current_batch_size' = 1
          /\ (within_lag' = "yes" /\ current_batch_size = 1)
                => (pc' = "build" /\ current_batch_size' = 1)]_vars

\* C11, amended: ... a message within the lag is consumed by a batch without
\* messages unless its Turtle does not parse (the run then ends with False)
\* ...
C11_FreshnessNonStarvation ==
    [][EventStep =>
          /\ (pc' = "build" /\ close_by'.reason = "fresh")
                => current_batch_size > 0
          /\ (within_lag' = "yes" /\ current_batch_size = 0)
                => IF stream'[source_pos].rdf_ok
                      THEN /\ current_batch_size' = 1
                           /\ event_id_for_next_batch' = source_pos + 1
                           /\ pc' = "build" => close_by'.reason = "ctrl_c"
                      ELSE pc' = "done" /\ ret' = "False"
          /\ (within_lag' = "yes" /\ current_batch_size = 1)
                => /\ pc' = "build"
                   /\ close_by'.reason = "fresh"
                   /\ current_batch_size' = 1
                   /\ wait_before_next_batch'
                   /\ UNCHANGED << insert_triples, delete_triples,
                                   event_id_for_next_batch >>]_vars

\* A batch whose first message was within the lag has consumed it and has
\* closed on the next message, within the lag too.
C11_OneMessageThenFresh ==
    /\ pc = "build"
    /\ close_by.reason = "fresh"
    /\ within_lag = "yes"
    /\ current_batch_size = 1
    /\ close_by.offset = first_offset_in_batch + 1
    /\ wait_before_next_batch

\* A batch has just been applied under --min-or-max-date=min (SpecWatermark).
AppliedUnderMin ==
    /\ pc = "watermark"
    /\ batch_count >= 1
    /\ args.min_or_max_date = "min"

\* C12, as claimed: after a batch with the dates t0..t1 was applied under the
\* min-date policy, the query for updates-complete-until returns t0, whatever
\* dates the endpoint held before.
C12_ReadsBackMinDate ==
    AppliedUnderMin => UpdatesCompleteUntil = Min(date_list)

\* C12, amended: ... the endpoint holds the completeness statement t0 and the
\* query returns the latest of t0, the completeness statements the endpoint
\* held before and its earliest dateModified: never less than t0, and exactly
\* t0 if and only if none of these is later than t0.
C12_WatermarkRoundTrip ==
    AppliedUnderMin =>
       LET t0 == Min(date_list)
           noneLater ==
              /\ \A d \in store_dates.updates_complete_until : d <= t0
              /\ Min(store_dates.date_modified) <= t0
       IN  /\ t0 \in store_dates.updates_complete_until
           /\ Max(date_list) \in store_dates.date_modified
           /\ UpdatesCompleteUntil >= t0
           /\ (UpdatesCompleteUntil = t0) <=> noneLater

\* A second batch, with the dates 1..2, was applied under the min-date policy
\* and the query returns 1.
C12_ReadBackAfterSecondBatch ==
    /\ AppliedUnderMin
    /\ batch_count = 2
    /\ date_list = {1, 2}
    /\ store_dates.date_modified = {1, 2}
    /\ UpdatesCompleteUntil = 1

\* The scenario of C13 with the offsets 1, 2, 3: A gets t1, B gets t2, A is
\* deleted, and the batch size is larger than the number of messages.
ScenarioStream ==
    /\ args.batch_size = StreamLen + 1
    /\ first_offset_in_batch = 1
    /\ stream[1] \in {Undelivered,
          Msg("A", "diff", 1, "ok", Payload({"t1"}), NoPayload, NoPayload, NoPayload, TRUE)}
    /\ stream[2] \in {Undelivered,
          Msg("B", "diff", 2, "ok", Payload({"t2"}), NoPayload, NoPayload, NoPayload, TRUE)}
    /\ stream[3] \in {Undelivered,
          Msg("A", "delete", 1, "ok", NoPayload, NoPayload, NoPayload, NoPayload, TRUE)}

\* ... and its three messages are in one batch, whose update is built.
ScenarioBatch ==
    /\ ScenarioStream
    /\ pc = "apply"
    /\ current_batch_size = 3

\* C13, as claimed: in the scenario the insert set of the batch holds only
\* B's triple, the deleted entities are {A}, the update has the DELETE WHERE
\* clause for A and the next offset is that of the third message plus one.
C13_OnlyOtherEntityInserted ==
    ScenarioBatch =>
       /\ insert_triples = {"t2"}
       /\ delete_entity_ids = {"A"}
       /\ update.delete_where = {"A"}
       /\ event_id_for_next_batch = 4

\* C13, amended: in the scenario none of the three messages closes the batch
\* unless Ctrl+C was pressed or the message is within the lag; with the
\* three in one batch the insert set holds A's inserted triple and B's
\* (postponing the deletion of A removes nothing from it), the delete set is
\* empty, the deleted entities are {A}, the update inserts both triples and
\* then has the DELETE WHERE clause for A, and the next offset is 4.
C13_EndToEndScenario ==
    /\ (ScenarioStream /\ pc = "build" /\ close_by.offset <= 3)
          => /\ close_by.reason \in {"ctrl_c", "fresh"}
             /\ current_batch_size = 3 => close_by.reason = "ctrl_c"
    /\ ScenarioBatch =>
          /\ insert_triples = {"t1", "t2"}
          /\ delete_triples = {}
          /\ delete_entity_ids = {"A"}
          /\ update.insert = {"t1", "t2"}
          /\ update.delete = {}
          /\ update.delete_where = {"A"}
          /\ update.next_offset = 4
          /\ event_id_for_next_batch = 4

\* The three messages of the scenario are in one batch and its update, with
\* the clause for A, is about to be sent.
C13_ScenarioInOneBatch ==
    /\ ScenarioBatch
    /\ stream[3].operation = "delete"
    /\ update.delete_where = {"A"}
    /\ close_by.offset = 3

\* A step of the inner loop that consumes the message at source_pos.
ConsumeStep ==
    /\ pc = "assemble"
    /\ ~use_cached_file
    /\ current_batch_size' = current_batch_size + 1

\* Every next offset written is 1 + the offset of the last message consumed
\* into the batch of the update: consuming the message at an offset sets the
\* event ID to that offset plus one, no other step of the inner loop changes
\* it, the update is built with it and the endpoint stores that of the update.
WatermarkSteps ==
    /\ ConsumeStep => event_id_for_next_batch' = source_pos + 1
    /\ (pc = "assemble" /\ ~use_cached_file /\ ~ConsumeStep /\ pc' # "done")
          => UNCHANGED event_id_for_next_batch
    /\ (pc = "build" /\ ~use_cached_file /\ pc' = "apply")
          => /\ update'.next_offset = event_id_for_next_batch
             /\ current_batch_size >= 1
    /\ (pc = "apply" /\ last_apply' = "applied")
          => store_offsets' = store_offsets \cup {update.next_offset}
    /\ (pc = "apply" /\ last_apply' # "applied") => UNCHANGED store_offsets

\* C14, as claimed: with the stop flag set while a batch is open the run does
\* not exit before the batch, of at least one message, is closed and its
\* update is sent; every next offset written is 1 + the offset of the last
\* message of its batch.
C14_StopNeverTruncates ==
    [][/\ (ctrl_c_pressed /\ pc \in {"assemble", "build"}) => pc' # "done"
       /\ (ctrl_c_pressed /\ ConsumeStep) => pc' = "build"
       /\ WatermarkSteps]_vars

\* C14, amended: ... unless a message whose RDF does not parse ends the run
\* with an error first, or the batch is closed before it has a message (the
\* update is then not built and the run ends with an exception); in both
\* cases nothing is sent.
C14_GracefulCancellation ==
    [][/\ (ctrl_c_pressed /\ pc \in {"assemble", "build"} /\ pc' = "done")
            => \/ /\ pc = "assemble"
                  /\ ~stream'[source_pos].rdf_ok
                  /\ ret' = "False"
               \/ /\ pc = "build"
                  /\ current_batch_size = 0
                  /\ ret' = "raised"
       /\ (ctrl_c_pressed /\ ConsumeStep /\ pc' # "done")
            => /\ pc' = "build"
               /\ close_by'.reason = "ctrl_c"
               /\ close_by'.offset = source_pos
       /\ (ctrl_c_pressed /\ pc = "build" /\ pc' = "apply" /\ ~use_cached_file)
            => /\ current_batch_size >= 1
               /\ update'.next_offset = event_id_for_next_batch
       /\ WatermarkSteps]_vars

\* Ctrl+C was pressed while the batch had one message; the second one was
\* consumed, the batch was closed on it and its update has been executed.
C14_StoppedBatchApplied ==
    /\ pc = "stats"
    /\ ctrl_c_pressed
    /\ close_by.reason = "ctrl_c"
    /\ current_batch_size = 2
    /\ last_apply = "applied"
    /\ update.next_offset = close_by.offset + 1
    /\ EndpointOffset = close_by.offset + 1

\* C15, as claimed: a response to the UPDATE request that is not JSON ends
\* the run only when no attempt is left (SpecRetry).
C15_NotJsonRetried ==
    (pc = "done" /\ retry.result = "not_json")
       => retry.attempt + 1 >= retry.max_retries

\* C15, amended: a response that is not JSON is the result of a successful
\* attempt: retry_with_backoff returns it without a delay or another attempt,
\* and execute returns False at once, whatever attempts are left.
C15_NotJsonHalts ==
    [][/\ (pc = "retry_try" /\ retry'.result = "not_json")
            => /\ pc' = "retry_returned"
               /\ retry'.attempt = retry.attempt
               /\ retry'.slept = retry.slept
       /\ (pc = "retry_returned" /\ retry.result = "not_json")
            => /\ pc' = "done"
               /\ ret' = "False"
               /\ UNCHANGED << retry, store_offsets, store_dates >>]_vars

\* The first attempt of an UPDATE request with ten attempts failed, the
\* second one returned text that is not JSON, and execute has returned False.
C15_HaltedWithAttemptsLeft ==
    /\ pc = "done"
    /\ ret = "False"
    /\ retry.operation_name = "update"
    /\ retry.result = "not_json"
    /\ retry.max_retries = 10
    /\ retry.attempt = 1
    /\ retry.slept = << 5 >>

\* The inner loop takes up a message whose date or whose RDF is malformed.
MalformedDateStep == EventStep /\ stream'[source_pos].dt_ok = "unparsable"
MalformedRdfStep == EventStep /\ ~stream'[source_pos].rdf_ok

\* The batch is as it was: its sets, its size and the next event ID.
BatchUntouched ==
    UNCHANGED << insert_triples, delete_triples, delete_entity_ids,
                 current_batch_size, total_num_messages, date_list,
                 event_id_for_next_batch >>

C17_AtMostOneSource ==
    open_sources <= 1

\* C18, as claimed: whenever the cached file of (first offset, batch size) is
\* sent in place of an assembled batch, the offset of the endpoint was read in
\* that iteration and found equal to the first offset.
C18_CachedAlwaysChecked ==
    (pc = "apply" /\ use_cached_file)
       => /\ guard.result = "match"
          /\ guard.endpoint_offset = first_offset_in_batch

\* C18, amended: a cached file is sent after the offset check only in an
\* iteration that has the check: with --check-offset-before-each-batch=yes
\* and first_batch False, the offset of the endpoint was read in that
\* iteration and found equal to the first offset. While first_batch is True
\* (the first batch of the run, and the batches that follow as long as none
\* was executed), or with the check disabled, the cached file is sent without
\* any read of the endpoint's offset.
C18_CachedCheckedAfterFirstBatch ==
    (pc = "apply" /\ use_cached_file)
       => /\ update = files[<< first_offset_in_batch, args.batch_size >>]
          /\ guard.expected = first_offset_in_batch
          /\ IF args.check_offset_before_each_batch = "yes" /\ ~first_batch
                THEN /\ guard.result = "match"
                     /\ guard.endpoint_offset = first_offset_in_batch
                ELSE /\ guard.result = "skipped"
                     /\ guard.endpoint_offset = None

\* After the first batch of the run a cached file is about to be sent: the
\* offset of the endpoint was read and is its first offset.
C18_CachedSentAfterCheck ==
    /\ pc = "apply"
    /\ use_cached_file
    /\ ~first_batch
    /\ guard.result = "match"
    /\ guard.endpoint_offset = first_offset_in_batch
    /\ update.next_offset = first_offset_in_batch + args.batch_size

\* C19: every delay between attempts polls ctrl_c_pressed: with the flag set
\* during the delay of an operation, no further attempt of the operation is
\* made (SpecRetry).
C19_BackoffInterruptible ==
    [][(pc = "retry_sleep" /\ ctrl_c_pressed)
          => /\ pc' # "retry_loop"
             /\ retry'.attempt = retry.attempt]_vars

\* The delay of the k-th retry in seconds: 5s, 10s, 30s, 60s, 5min, 15min,
\* 30min, 1h, and 1h for every later one.
PolicyDelay(k) ==
    IF k = 1 THEN 5
    ELSE IF k = 2 THEN 10
    ELSE IF k = 3 THEN 30
    ELSE IF k = 4 THEN 60
    ELSE IF k = 5 THEN 5 * 60
    ELSE IF k = 6 THEN 15 * 60
    ELSE IF k = 7 THEN 30 * 60
    ELSE 60 * 60

\* C20: for each of the three operations, the k-th retry of a failing
\* operation comes after the k-th delay of the policy; the first attempt that
\* succeeds ends the retrying and its result is returned; the error is raised
\* exactly when the attempt that failed was the last of the --num-retries
\* attempts, and execute then returns without going on with a batch
\* (SpecRetry).
C20_RetryPolicy ==
    [][/\ \A k \in 1..Len(retry'.slept) : retry'.slept[k] = PolicyDelay(k)
       /\ (pc = "retry_try" /\ pc' = "retry_sleep")
            => /\ retry.attempt + 1 < retry.max_retries
               /\ retry'.slept =
                     Append(retry.slept, PolicyDelay(retry.attempt + 1))
       /\ (pc = "retry_sleep" /\ pc' # pc)
            => /\ pc' = "retry_loop"
               /\ retry'.attempt = retry.attempt + 1
               /\ retry'.attempt < retry.max_retries
       /\ (pc = "retry_try" /\ pc' = "retry_returned")
            => /\ retry'.result \in {"ok", "not_json", "exception"}
               /\ retry'.slept = retry.slept
               /\ Len(retry.slept) = retry.attempt
       /\ pc = "retry_returned"
            => pc' \notin {"retry_loop", "retry_try", "retry_sleep"}
       /\ (pc = "retry_try" /\ pc' = "retry_raised")
            => /\ retry.attempt + 1 = retry.max_retries
               /\ Len(retry.slept) = retry.max_retries - 1
               /\ retry'.result = "error"
       /\ pc = "retry_raised"
            => /\ pc' = "done"
               /\ ret' = IF retry.operation_name = "connect"
                            THEN "True" ELSE "False"
               /\ UNCHANGED << store_offsets, store_dates >>
       /\ (pc = "retry_try" /\ pc' # pc)
            => pc' \in {"retry_sleep", "retry_returned", "retry_raised"}]_vars

\* With --num-retries 10 all ten attempts of the UPDATE request failed: nine
\* delays were taken, the ninth of them 1h as the eighth, and the error is
\* raised.
C20_TenAttemptsFailed ==
    /\ pc = "retry_raised"
    /\ retry.operation_name = "update"
    /\ retry.max_retries = 10
    /\ retry.attempt = 9
    /\ retry.slept = << 5, 10, 30, 60, 300, 900, 1800, 3600, 3600 >>

\* C21: a batch is closed and its update is built only after it has consumed
\* at least one message, on every path, an iteration after a rejected batch
\* with --num-messages already reached included.
C21_ClosedBatchNonEmpty ==
    pc = "build" => current_batch_size >= 1

\* C22: a message whose date has reached --until, read by a non-empty batch
\* that no earlier condition closes, closes the batch without being consumed
\* and marks the run finished; once the run is finished, the update of that
\* batch is sent and the run ends, whether the endpoint executes the update
\* or answers with an exception: no further batch is assembled.
C22_HorizonEndsRun ==
    [][/\ ( /\ EventStep
            /\ args.until # None
            /\ stream'[source_pos].dt_ok = "ok"
            /\ stream'[source_pos].dt >= args.until
            /\ current_batch_size > 0
            /\ ~ConflictCondition(stream'[source_pos])
            /\ ~SizeCondition
            /\ within_lag' # "yes" )
            => /\ pc' = "build"
               /\ finished'
               /\ close_by'.offset = source_pos
               /\ BatchUntouched
       /\ finished' => pc' # "assemble"]_vars

\* C23: the number of messages of the batch under assembly never exceeds
\* --batch-size, and a batch that has --batch-size messages consumes no
\* further message: the next message closes it and the batch is as it was.
C23_BatchSizeBound ==
    [][/\ current_batch_size <= args.batch_size
       /\ current_batch_size' <= args'.batch_size
       /\ (EventStep /\ current_batch_size >= args.batch_size)
            => /\ pc' = "build"
               /\ close_by'.reason \in {"conflict", "size"}
               /\ close_by'.offset = source_pos
               /\ source_pos' = source_pos
               /\ BatchUntouched]_vars

\* A batch with --batch-size messages was closed by the next message, with
\* no limit on the number of messages.
C23_ClosedAtBatchSize ==
    /\ pc = "build"
    /\ ~use_cached_file
    /\ args.num_messages = None
    /\ close_by.reason = "size"
    /\ current_batch_size = args.batch_size
    /\ close_by.offset = event_id_for_next_batch

\* A message closes the batch by condition 1, 2 or 3.
TriggerCloseStep ==
    /\ pc = "assemble"
    /\ pc' = "build"
    /\ close_by'.reason \in {"conflict", "size", "fresh"}

\* The first batch assembled after a batch closed by condition 1, 2 or 3 is
\* empty and handles a message (a step of ProcessEvent).
AfterTriggerStep ==
    /\ EventStep
    /\ batch_count >= 1
    /\ close_by.reason \in {"conflict", "size", "fresh"}
    /\ current_batch_size = 0

\* C24, as claimed: the message that closes a batch by condition 1, 2 or 3
\* is not consumed, the event ID the batch leaves is at or before it, and
\* (the endpoint having executed the update of the batch) it is the first
\* message the next batch consumes.
C24_TriggerConsumedNext ==
    [][/\ TriggerCloseStep
            => /\ close_by'.offset = source_pos
               /\ close_by'.next <= source_pos
               /\ BatchUntouched
       /\ (AfterTriggerStep /\ last_apply = "applied"
                             /\ current_batch_size' = 1)
            => source_pos = close_by.offset]_vars

\* C24, amended: ... the messages between that event ID and the message that
\* closed the batch are the skipped ones; when the next batch starts at that
\* event ID (no rewind to an earlier offset, no cached file) it skips these
\* again and, if the date of the message that closed the batch parses, that
\* message is the first one it consumes (or, with RDF that does not parse,
\* the one that halts the run); if its date does not parse it is skipped.
\* A next batch that is assembled with --num-messages already reached
\* closes on the first message it reads and consumes nothing.
C24_TriggerNotLost ==
    [][/\ TriggerCloseStep
            => /\ close_by'.offset = source_pos
               /\ close_by'.next <= source_pos
               /\ source_pos' = source_pos
               /\ BatchUntouched
               /\ \A o \in close_by'.next..(source_pos - 1) :
                     close_by'.next # None => stream[o].dt_ok = "unparsable"
       /\ (AfterTriggerStep /\ first_offset_in_batch = close_by.next)
            => /\ source_pos <= close_by.offset
                  => IF /\ args.num_messages # None
                        /\ total_num_messages >= args.num_messages
                        THEN /\ pc' = "build"
                             /\ close_by'.reason = "size"
                             /\ BatchUntouched
                     ELSE IF stream'[source_pos].dt_ok = "unparsable"
                        THEN /\ pc' = "assemble"
                             /\ source_pos' = source_pos + 1
                             /\ BatchUntouched
                        ELSE /\ source_pos = close_by.offset
                             /\ \/ current_batch_size' = 1
                                \/ /\ pc' = "done"
                                   /\ ~stream'[source_pos].rdf_ok
               /\ current_batch_size' = 1
                  => \/ source_pos = close_by.offset
                     \/ /\ source_pos > close_by.offset
                        /\ stream[close_by.offset].dt_ok = "unparsable"]_vars

\* The batch after one closed by its size has started at the event ID that
\* batch left and has consumed the message that closed it.
C24_ResumedAtSizeTrigger ==
    /\ pc = "assemble"
    /\ batch_count >= 1
    /\ close_by.reason = "size"
    /\ first_offset_in_batch = close_by.next
    /\ current_batch_size = 1
    /\ source_pos = close_by.offset + 1
    /\ event_id_for_next_batch = close_by.offset + 1

\* The batch closes on the message at source_pos for `reason`, the message is
\* not consumed, and the wait before the next batch and the end of the run
\* are set as given.
ClosesFor(reason, wait, end) ==
    /\ pc' = "build"
    /\ close_by'.reason = reason
    /\ close_by'.offset = source_pos
    /\ wait_before_next_batch' = wait
    /\ finished' = end
    /\ BatchUntouched

\* C25: for each message the conditions are evaluated in the order Conflict,
\* Size, Freshness, Horizon and the first that holds decides the close and
\* its effects: with Size (and Freshness or not) the batch closes by Size and
\* no wait is scheduled; with Freshness and Horizon it closes by Freshness
\* and the run is not marked finished; the message is consumed only if none
\* holds.
C25_ConditionPriority ==
    [][EventStep =>
          LET event == stream'[source_pos]
              conflict == /\ \/ event.rdf_added_data # NoPayload
                             \/ event.rdf_linked_shared_data # NoPayload
                          /\ event.entity_id \in delete_entity_ids
              size == \/ current_batch_size >= args.batch_size
                      \/ /\ args.num_messages # None
                         /\ total_num_messages >= args.num_messages
              freshness == within_lag' = "yes" /\ current_batch_size > 0
              horizon == /\ args.until # None
                         /\ event.dt >= args.until
                         /\ current_batch_size > 0
          IN  IF conflict
                 THEN ClosesFor("conflict", wait_before_next_batch, finished)
              ELSE IF size
                 THEN ClosesFor("size", wait_before_next_batch, finished)
              ELSE IF event.dt_ok = "unparsable"
                 THEN pc' = "assemble" /\ BatchUntouched
              ELSE IF freshness
                 THEN ClosesFor("fresh", TRUE, finished)
              ELSE IF horizon
                 THEN ClosesFor("until", wait_before_next_batch, TRUE)
              ELSE \/ /\ current_batch_size' = current_batch_size + 1
                      /\ event_id_for_next_batch' = source_pos + 1
                   \/ /\ pc' = "done"
                      /\ ~event.rdf_ok]_vars

\* A message that is within the lag and has reached --until closed a
\* non-empty batch: by Freshness, with the wait scheduled and the run not
\* marked finished.
C25_FreshBeforeHorizon ==
    /\ pc = "build"
    /\ close_by.reason = "fresh"
    /\ within_lag = "yes"
    /\ args.until # None
    /\ stream[close_by.offset].dt >= args.until
    /\ current_batch_size > 0
    /\ wait_before_next_batch
    /\ ~finished

\* C26: an event that is not a message, has no data or is of another topic
\* changes nothing: the insert and delete sets, the postponed entity ids,
\* the message counts, the dates and the resume token stay as they are, no
\* closing condition is evaluated on it (the batch stays open even when it
\* is full, nothing is recorded as closing it), and the loop goes on from
\* the same place of the source, so the batch is composed as without it.
C26_TopicFilterTransparent ==
    [][ other_events' # other_events =>
          /\ BatchUntouched
          /\ pc' = pc
          /\ UNCHANGED << close_by, finished, wait_before_next_batch,
                          source_pos, first_offset_in_batch, batch_count,
                          first_batch, update, ret, envVars >> ]_vars

\* C26 witness: an event of another topic came to a full batch and the batch
\* is still open.
C26_PassedOverAtFullBatch ==
    /\ pc = "assemble"
    /\ current_batch_size = args.batch_size
    /\ \E i \in DOMAIN other_events :
          /\ other_events[i].kind = "other_topic"
          /\ other_events[i].at = args.batch_size

\* C27: the update built for a closed batch is one request. Its first
\* operation deletes the delete set and inserts the insert set together with
\* exactly three triples on wikibase:Dump, the next offset among them being
\* the offset of the event ID for the next batch; a DELETE WHERE operation
\* follows if and only if entity ids were postponed, it names exactly these
\* ids and comes after the insert.
C27_BuiltTransaction ==
    [][ pc = "build" /\ pc' = "apply" /\ ~use_cached_file =>
          LET request == DeleteInsertOperation(update')
          IN  /\ Len(request) = IF delete_entity_ids = {} THEN 1 ELSE 2
              /\ request[1].operation = "DELETE INSERT"
              /\ request[1].delete = delete_triples
              /\ request[1].insert = insert_triples
              /\ Cardinality(request[1].dump) = 3
              /\ \A w \in request[1].dump :
                    w[1] = "updateStreamNextOffset"
                       => w[2] = event_id_for_next_batch
              /\ \E w \in request[1].dump : w[1] = "updateStreamNextOffset"
              /\ event_id_for_next_batch = close_by.next
              /\ delete_entity_ids # {} =>
                    /\ request[2].operation = "DELETE WHERE"
                    /\ request[2].values = delete_entity_ids ]_vars

\* C27 witness: an update was built from a batch with triples to insert and
\* a postponed entity id.
C27_BuiltWithPostponedDelete ==
    /\ pc = "apply"
    /\ ~use_cached_file
    /\ update.insert # {}
    /\ update.delete_where # {}
    /\ Len(DeleteInsertOperation(update)) = 2

\* The dates of the messages a batch has consumed, read from the stream: the
\* messages from the first offset of the batch up to the event ID for the
\* next one, without those that were skipped.
ConsumedDates ==
    {stream[o].dt : o \in {p \in Offsets : /\ first_offset_in_batch <= p
                                           /\ p < event_id_for_next_batch}
                            \ SkippedIn(first_offset_in_batch,
                                        event_id_for_next_batch)}

\* An update was built from the messages of the batch.
BuiltFromStream ==
    /\ pc = "apply"
    /\ ~use_cached_file

\* C28: of the update of a batch, dateModified is the latest date of the
\* messages the batch consumed, and updatesCompleteUntil is their earliest
\* date with --min-or-max-date min and their latest with max, in whatever
\* order the messages came.
C28_WatermarkTimestamps ==
    BuiltFromStream =>
       /\ \E d \in ConsumedDates :
             /\ update.date_modified = d
             /\ \A e \in ConsumedDates : e <= d
       /\ \E d \in ConsumedDates :
             /\ update.updates_complete_until = d
             /\ \A e \in ConsumedDates :
                   IF args.min_or_max_date = "min" THEN d <= e ELSE e <= d

\* C28 witness: the later date came first, and with --min-or-max-date min the
\* update has the earlier one as updatesCompleteUntil and the later one as
\* dateModified.
C28_LaterDateFirst ==
    /\ BuiltFromStream
    /\ args.min_or_max_date = "min"
    /\ current_batch_size = 2
    /\ stream[first_offset_in_batch].dt = 2
    /\ stream[first_offset_in_batch + 1].dt = 1
    /\ update.updates_complete_until = 1
    /\ update.date_modified = 2

\* C29: once the endpoint has executed the update, nothing in the statistics
\* of its response halts the run or changes its course: the connection to
\* the stream is closed, the event ID for the next batch is kept, and the
\* command goes on to the next batch or returns as its end conditions say.
C29_StatisticsNeverHalt ==
    [][ pc = "stats" /\ pc' # "stats" =>
          /\ ret' # "raised"
          /\ open_sources' = open_sources - 1
          /\ pc' = "loop_top" => UNCHANGED event_id_for_next_batch
          /\ pc' = "loop_top" <=> ~ \/ ctrl_c_pressed
                                    \/ finished
                                    \/ /\ args.num_messages # None
                                       /\ total_num_messages >= args.num_messages
        ]_vars

\* The command has determined the offset to start from.
StartStep == pc = "start" /\ pc' = "loop_top"

\* The first batch of the run is open and nothing was sent yet.
FirstBatchOpen ==
    /\ pc = "assemble"
    /\ batch_count = 0
    /\ last_apply = "none"

\* C30, as claimed: the first batch starts at the offset given on the command
\* line if there is one, otherwise at the offset the endpoint holds if it
\* holds one, and at an offset taken from the stream by date only when
\* neither exists: never by date when the endpoint holds an offset.
C30_DateOnlyWithoutWatermark ==
    [][ /\ FirstBatchOpen' => first_offset_in_batch' = args'.offset
        /\ StartStep =>
             IF args.offset # None
                THEN event_id_for_next_batch' = args.offset
             ELSE IF EndpointOffset # None
                THEN /\ event_id_for_next_batch' = EndpointOffset
                     /\ start_from' = "endpoint"
             ELSE /\ event_id_for_next_batch' \in Offsets
                  /\ start_from' = "date" ]_vars

\* C30, amended: ... otherwise at the offset the endpoint holds if the query
\* for it is answered with one, and at an offset taken from the stream by
\* date when no offset was obtained: the endpoint holds none, or the query
\* failed. So the date is used while the endpoint holds an offset exactly
\* when the query for it failed, never when the query was answered with one
\* or an offset was given.
C30_StartPointDerivation ==
    [][ /\ FirstBatchOpen' => first_offset_in_batch' = args'.offset
        /\ StartStep =>
             IF args.offset # None
                THEN /\ event_id_for_next_batch' = args.offset
                     /\ start_from' = "arg"
                ELSE /\ event_id_for_next_batch' \in Offsets
                     /\ args'.offset = event_id_for_next_batch'
                     /\ start_from' \in {"endpoint", "date", "date_query_failed"}
                     /\ start_from' = "endpoint" =>
                           /\ EndpointOffset # None
                           /\ event_id_for_next_batch' = EndpointOffset
                     /\ start_from' = "date" => EndpointOffset = None ]_vars

\* C30 witness: the first batch is open at an offset taken by date, after the
\* query for the offset failed, while the endpoint holds another offset.
C30_DateUsedAfterFailedQuery ==
    /\ FirstBatchOpen
    /\ start_from = "date_query_failed"
    /\ EndpointOffset # None
    /\ first_offset_in_batch # EndpointOffset

\* The offset check (or its omission) before a batch.
GuardStep == pc = "guard" /\ pc' # "guard"

\* A batch after the first is about to start at an offset later than that
\* of the endpoint.
StreamAhead ==
    /\ ~first_batch
    /\ event_id_for_next_batch # None
    /\ EndpointOffset # None
    /\ EndpointOffset < event_id_for_next_batch

\* ... at an offset earlier than that of the endpoint.
StreamBehind ==
    /\ ~first_batch
    /\ event_id_for_next_batch # None
    /\ EndpointOffset # None
    /\ EndpointOffset > event_id_for_next_batch

\* C31, as claimed (halting and rewinding under the two options): with the
\* rewind disabled and the check enabled, an endpoint offset below the
\* expected one halts the run without a reconnect; with the check disabled
\* no mismatch halts the run; and the rewind is kept while the check is
\* disabled: the command still reconnects at the offset of the endpoint.
C31_RewindKeptWithoutCheck ==
    [][ GuardStep =>
          /\ ( /\ args.check_offset_before_each_batch = "yes"
               /\ args.rewind_to_earlier_offset = "no"
               /\ StreamAhead ) => ret' = "False"
          /\ args.check_offset_before_each_batch = "no" => ret' # "False"
          /\ ( /\ args.check_offset_before_each_batch = "no"
               /\ args.rewind_to_earlier_offset = "yes"
               /\ StreamAhead )
                => /\ pc' = "loop_top"
                   /\ event_id_for_next_batch' = EndpointOffset ]_vars

\* C31, amended: the rewind is an option within the check, not beside it.
\* With the rewind disabled and the check enabled, an endpoint offset below
\* the expected one halts the run without a reconnect; with the check
\* disabled the endpoint is not asked before any batch and neither a rewind
\* nor a halt on a mismatch can occur, whatever the rewind option says; with
\* the check enabled an endpoint offset above the expected one always halts
\* the run, so the rewind cannot be kept without this halt.
C31_RewindWithinCheck ==
    [][ GuardStep =>
          /\ ( /\ args.check_offset_before_each_batch = "yes"
               /\ args.rewind_to_earlier_offset = "no"
               /\ StreamAhead )
                => /\ ret' = "False"
                   /\ guard'.result \in {"later", "failed"}
          /\ args.check_offset_before_each_batch = "no"
                => /\ guard'.result = "skipped"
                   /\ guard'.endpoint_offset = None
                   /\ pc' = "assemble"
                   /\ first_offset_in_batch' = event_id_for_next_batch
          /\ guard'.result = "rewind"
                => /\ args.check_offset_before_each_batch = "yes"
                   /\ args.rewind_to_earlier_offset = "yes"
                   /\ StreamAhead
                   /\ pc' = "loop_top"
                   /\ event_id_for_next_batch' = EndpointOffset
          /\ ( /\ args.check_offset_before_each_batch = "yes"
               /\ StreamBehind )
                => /\ ret' = "False"
                   /\ guard'.result \in {"earlier", "failed"} ]_vars

\* C31 witness: with the check disabled and the rewind left enabled, a
\* second batch was started at an offset later than that of the endpoint.
C31_NoRewindWithoutCheck ==
    /\ pc = "assemble"
    /\ args.check_offset_before_each_batch = "no"
    /\ args.rewind_to_earlier_offset = "yes"
    /\ ~first_batch
    /\ guard.result = "skipped"
    /\ EndpointOffset # None
    /\ EndpointOffset < first_offset_in_batch

\* retry_with_backoff is running: in the loop, in an attempt, asleep, or
\* about to return or raise.
InRetry == {"retry_loop", "retry_try", "retry_sleep", "retry_returned",
            "retry_raised"}

\* C32: while the UPDATE request is retried the batch stays as it is: no
\* message is read from the stream, the batch is not assembled again, the
\* update (the file that every attempt sends, with its three triples on
\* wikibase:Dump) is the same for every attempt, and the event ID for the
\* next batch is the same from before the first attempt to after the last.
C32_RetriedUnchanged ==
    [][ ( /\ retry.operation_name = "update"
          /\ pc \in InRetry
          /\ pc' \in InRetry )
          => /\ UNCHANGED << update, files, stream, source_pos,
                             event_id_for_next_batch, first_offset_in_batch,
                             current_batch_size, total_num_messages,
                             batch_count, date_list, insert_triples,
                             delete_triples, delete_entity_ids >>
             /\ update' = RetriedBatchUpdate
             /\ update'.next_offset = event_id_for_next_batch' ]_vars

\* C32 witness: the UPDATE request failed twice, the third attempt is running
\* and the update is the one built from the batch.
C32_ThirdAttemptSameUpdate ==
    /\ retry.operation_name = "update"
    /\ pc = "retry_try"
    /\ retry.attempt = 2
    /\ Len(retry.slept) = 2
    /\ update = RetriedBatchUpdate
    /\ event_id_for_next_batch = 2
    /\ source_pos = 2

\* The top of the main loop up to the connection: the wait between batches
\* and the check of the flag after it.
WaitPcs == {"wait_begin", "wait_loop", "wait_sleep", "wait_done"}

\* C33: the wait between batches goes in steps of one second and looks at
\* the flag of Ctrl+C before each of them; when the flag is set, before or
\* during the wait, no further second is begun and execute returns without
\* a connection to the stream, a query for the offset or another batch.
C33_CooldownInterruptible ==
    [][ /\ (pc = "wait_sleep" /\ pc' # pc)
              => /\ pc' = "wait_loop"
                 /\ seconds_waited' = seconds_waited + 1
        /\ (pc = "wait_loop" /\ pc' = "wait_sleep")
              => /\ ~ctrl_c_pressed
                 /\ seconds_waited < args.wait_between_batches
        /\ (pc \in WaitPcs /\ ctrl_c_pressed /\ pc' # pc)
              => /\ pc' \in {"wait_loop", "wait_done", "done"}
                 /\ pc' = "wait_loop" => pc \in {"wait_begin", "wait_sleep"}
                 /\ pc' = "done" => ret' = "True"
                 /\ UNCHANGED << open_sources, guard, envVars >>
        /\ (pc \in WaitPcs /\ pc' = "connect") => ~ctrl_c_pressed ]_vars

\* C33 witness: Ctrl+C came in the first second of a wait of three, and
\* execute has returned True after that second without a connection.
C33_StoppedAfterOneSecond ==
    /\ pc = "done"
    /\ ret = "True"
    /\ ctrl_c_pressed
    /\ args.wait_between_batches = 3
    /\ seconds_waited = 1
    /\ open_sources = 0
    /\ guard.expected = 1

\* The term with every `\` read as the backslash it stands for.
RECURSIVE Unescaped(_)
Unescaped(term) ==
    IF Len(term) < 6 THEN term
    ELSE IF SubSeq(term, 1, 6) = << "\\", "u", "0", "0", "5", "C" >>
       THEN << "\\" >> \o Unescaped(SubSeq(term, 7, Len(term)))
       ELSE << term[1] >> \o Unescaped(Tail(term))

\* The number of backslashes of the term.
RECURSIVE Backslashes(_)
Backslashes(term) ==
    IF term = << >> THEN 0
    ELSE (IF term[1] = "\\" THEN 1 ELSE 0) + Backslashes(Tail(term))

\* C34: in the string of a triple, the object has every two consecutive
\* backslashes of its serialization replaced by `\\`: it stands
\* for the same characters, and no two backslashes are next to each other in
\* it, however long the runs of backslashes were.
C34_NoAdjacentBackslashes ==
    pc = "added" =>
       \A object \in insert_triples :
          /\ \A i \in 1..(Len(object) - 1) :
                ~(object[i] = "\\" /\ object[i + 1] = "\\")
          /\ Unescaped(object) = stream[1].object
          /\ Backslashes(object) = Backslashes(stream[1].object)

\* C34 witness: a run of three backslashes before `u` has become
\* `\\\u`.
C34_RunOfThreeEscaped ==
    /\ pc = "added"
    /\ stream[1].object = << "\\", "\\", "\\", "u" >>
    /\ insert_triples = {EscapedPair \o << "\\", "u" >>}

\* C35: the last operation wins. After every operation of a batch, a triple
\* is in insert_triples if and only if its last operation was an insert and
\* in delete_triples if and only if its last operation was a delete; the
\* operation itself records the triple in its own set whatever was there and
\* removes the entry of the opposite set.
C35_LastOperationWins ==
    [][ \A t \in Triples :
          /\ t \in insert_triples' <=>
                ( /\ triple_ops'[t] # << >>
                  /\ triple_ops'[t][Len(triple_ops'[t])] = "insert" )
          /\ t \in delete_triples' <=>
                ( /\ triple_ops'[t] # << >>
                  /\ triple_ops'[t][Len(triple_ops'[t])] = "delete" )
          /\ InsertStep(t) => (t \in insert_triples' /\ t \notin delete_triples')
          /\ DeleteStep(t) => (t \in delete_triples' /\ t \notin insert_triples')
      ]_vars

\* C35 witness: t1 was deleted, inserted and deleted again, and is to be
\* deleted; t2 was not touched.
C35_DeleteInsertDelete ==
    /\ triple_ops["t1"] = << "delete", "insert", "delete" >>
    /\ "t1" \in delete_triples
    /\ "t1" \notin insert_triples
    /\ triple_ops["t2"] = << >>

\* C36: with --num-messages M the messages consumed in total never exceed M,
\* and once they are M the batch is sent and the main loop ends, also when
\* the batch is taken from a cached file and when the endpoint answers with
\* an exception.
C36_ExactlyNumMessages ==
    [][ args.num_messages # None =>
          /\ total_num_messages' <= args.num_messages
          /\ ( /\ pc \in {"apply", "stats"}
               /\ pc' # pc
               /\ total_num_messages >= args.num_messages )
                => pc' = "stats" \/ (pc' = "done" /\ ret' # "raised") ]_vars

\* C37: --num-retries N is a number of retries. A failing operation is
\* attempted once and then up to N more times before its error is raised, so
\* there is at least one attempt also for N = 0, and retry_with_backoff never
\* returns without the result of an attempt.
C37_RetriesAfterFirstAttempt ==
    [][ /\ (pc # "retry_returned" /\ pc' = "retry_returned")
              => /\ pc = "retry_try"
                 /\ retry'.result \in {"ok", "not_json", "exception"}
        /\ (pc # "retry_raised" /\ pc' = "retry_raised")
              => /\ pc = "retry_try"
                 /\ retry.attempt + 1 = retry.max_retries + 1 ]_vars

\* C38: when the cached file of (first offset, batch size) was executed, the
\* event ID for the next batch, first offset + batch size, is the next offset
\* that the file has written into the endpoint, however the earlier run
\* produced the file, also from a batch in which messages were skipped.
C38_CachedOffsetConsistent ==
    (pc = "stats" /\ use_cached_file /\ last_apply = "applied")
       => /\ event_id_for_next_batch = first_offset_in_batch + args.batch_size
          /\ update.next_offset = event_id_for_next_batch
          /\ update.next_offset \in store_offsets

\* C39: execute returns True only when the run ended by Ctrl+C, by --until
\* or by --num-messages; a run that ended because the connection to the
\* stream, the query for the offset or the UPDATE request failed on every
\* attempt, because the offsets did not match or because the response could
\* not be parsed returns False.
C39_TrueOnlyOnNormalEnd ==
    [][ (pc # "done" /\ pc' = "done") =>
          /\ ret' \in {"True", "False"}
          /\ ret' = "True" =>
                \/ ctrl_c_pressed
                \/ finished
                \/ /\ args.num_messages # None
                   /\ total_num_messages >= args.num_messages
          /\ pc \in {"connect", "guard", "apply"} => ret' = "False" ]_vars

\* ------------------------------------------- the main loop, run after run

\* The main loop after its first batch, the message at offset 1, was applied
\* (or applied and lost by the endpoint), at the top of the next iteration.
\* The loop has no counter of its iterations but the statistics batch_count
\* and total_num_messages, which no condition reads without --num-messages:
\* here they are not counted, nor are the connections left open, so that an
\* iteration that leaves the program where the last one left it is a cycle of
\* states.
InitProgress ==
    /\ args \in { DefaultArgs,
                  [DefaultArgs EXCEPT !.check_offset_before_each_batch = "no"],
                  [DefaultArgs EXCEPT !.rewind_to_earlier_offset = "no"] }
    /\ stream = [o \in Offsets |->
                    IF o = 1 THEN RetriedBatchMsg ELSE Undelivered]
    /\ store_offsets \in {{1}, {1, 2}}
    /\ store_index = {1}
    /\ store_dates = DatesAfterFirst
    /\ store_changes = 0
    /\ files = << >>
    /\ pc = "loop_top"
    /\ ret = "running"
    /\ ctrl_c_pressed = FALSE
    /\ retry = NoRetry
    /\ other_events = << >>
    /\ seconds_waited = 0
    /\ finished = FALSE
    /\ batch_count = 1
    /\ total_num_messages = 1
    /\ wait_before_next_batch = FALSE
    /\ event_id_for_next_batch = 2
    /\ first_batch = FALSE
    /\ source_pos = 2
    /\ open_sources = 0
    /\ first_offset_in_batch = 1
    /\ current_batch_size = 1
    /\ date_list = {1}
    /\ delete_entity_ids = {}
    /\ insert_triples = {"t1"}
    /\ delete_triples = {}
    /\ use_cached_file = FALSE
    /\ update = RetriedBatchUpdate
    /\ start_from = "endpoint"
    /\ guard = [result |-> "skipped", endpoint_offset |-> None,
                expected |-> 1, prev |-> "none"]
    /\ close_by = [reason |-> "size", offset |-> 2, next |-> 2]
    /\ last_apply = "applied"
    /\ triple_ops = [t \in Triples |-> << >>]
    /\ within_lag = "none"

\* Lines 428-465, with one connection counted however many are open.
ConnectAgain ==
    ConnectCounting(1)

\* Lines 618-866, the message not counted in total_num_messages.
ProcessEventAgain ==
    ProcessEventCounting(total_num_messages)

\* Lines 879-989, the batch not counted in batch_count.
BuildUpdateAgain ==
    BuildUpdateCounting(batch_count)

\* The steps of the command: each of them ends (a request to the endpoint or
\* to the stream is given up after its last attempt), and the stream goes on
\* delivering messages.
ProgressStep ==
    \/ LoopTop
    \/ ConnectAgain
    \/ OffsetGuard
    \/ ProcessEventAgain
    \/ BuildUpdateAgain
    \/ ApplyUpdate
    \/ FinishBatch

NextProgress ==
    \/ CtrlC
    \/ ProgressStep

SpecProgress ==
    InitProgress /\ [][NextProgress]_vars /\ WF_vars(ProgressStep)

\* C40 (as stated): every batch built is followed by an advance of the offset
\* in the endpoint or by the end of the run (or the messages of the model
\* are read to the last): an update that the endpoint rejects every time is
\* not rebuilt and sent for ever.
C40_AdvanceOrEnd ==
    (pc = "apply") ~> \/ pc = "done"
                      \/ pc = "stats" /\ last_apply = "applied"
                      \/ source_pos \notin Offsets

\* C40 (amended): every batch built is followed by an advance of the offset
\* in the endpoint, by the end of the run or, when the endpoint answers with
\* an "exception", by one more iteration of the main loop, which the command
\* begins while it still runs.
C40_AdvanceEndOrNextIteration ==
    (pc = "apply") ~> \/ ret # "running"
                      \/ pc = "stats" /\ last_apply = "applied"
                      \/ /\ pc = "loop_top"
                         /\ last_apply = "exception"
                         /\ ret = "running"

\* The batch of message 2 is at the endpoint for the second time at least:
\* the endpoint answered the first with an "exception", the offset it holds
\* is still 2 and the command went back to it.
C40_RejectedBatchSentAgain ==
    /\ pc = "apply"
    /\ last_apply = "exception"
    /\ guard.result = "match"
    /\ guard.prev = "rewind"
    /\ first_offset_in_batch = 2
    /\ store_offsets = {1, 2}

====
